---------------------------- MODULE Spec2Model ----------------------------
(***************************************************************************)
(* Verification model of the whoosh indexing + retrieval engine:           *)
(*   - the matcher algebra of whoosh/matching.py (posting-list cursors),   *)
(*   - the segmented index with its generational TOC, the SegmentWriter    *)
(*     commit protocol and the merge policies (whoosh/filedb/fileindex.py, *)
(*     whoosh/filedb/filewriting.py).                                      *)
(***************************************************************************)
EXTENDS Integers, Sequences, FiniteSets, TLC

(***************************************************************************)
(* Bounds of the model                                                     *)
(***************************************************************************)
\* posting ids of the leaf lists are drawn from 0..MaxId
MaxId == 2
\* a leaf posting list holds at most MaxLen ids
MaxLen == 2
\* at most MaxDocs documents are ever handed to add_document
MaxDocs == 1
\* the client of the sequential specification opens at most MaxSessions
\* SegmentWriter objects, one after the other
MaxSessions == 2
\* at most MaxDels calls of delete_document are ever made
MaxDels == 1
\* the sequential specification starts from an index whose one segment
\* holds up to MaxSeg documents
MaxSeg == 7
\* calls made on a matcher after it is exhausted
MaxDead == 2
\* a segment of the merge specification's initial index holds up to
\* MaxCount documents
MaxCount == 5
\* the initial index of the deletion specification holds up to MaxTotal
\* documents in all
MaxTotal == 3
\* the terms of field 0 are 0..MaxText (field 1 has the term 0)
MaxText == 1
\* a phrase has at most MaxWords words
MaxWords == 3
\* the positions of a word in a document are drawn from 0..MaxPos
MaxPos == 2
\* the documents of the phrase matcher's words are drawn from 0..MaxPDoc
MaxPDoc == 1

(***************************************************************************)
(* Generic helpers                                                         *)
(***************************************************************************)
Range(s) == {s[k] : k \in DOMAIN s}

SetMin(S) == CHOOSE x \in S : \A y \in S : x <= y

SetMax(S) == CHOOSE x \in S : \A y \in S : y <= x

RECURSIVE SortedSeq(_)
\* python sorted(set): the ascending list of the elements of S
SortedSeq(S) ==
    IF S = {} THEN <<>>
    ELSE LET mn == SetMin(S) IN <<mn>> \o SortedSeq(S \ {mn})

\* the elements of sequence s that satisfy Keep, in order
RECURSIVE FilterSeq(_, _)
FilterSeq(s, keep) ==
    IF s = <<>> THEN <<>>
    ELSE IF Head(s) \in keep THEN <<Head(s)>> \o FilterSeq(Tail(s), keep)
         ELSE FilterSeq(Tail(s), keep)

(***************************************************************************)
(* Matchers (whoosh/matching.py)                                           *)
(*                                                                         *)
(* A matcher is a record tagged by its class in field "type".  A method    *)
(* that moves the cursor returns R(m, err): the matcher as the call left   *)
(* it and the exception it raised ("none" when it returned normally).      *)
(* id() of a ListMatcher whose position ran off the list raises            *)
(* IndexError; id(_) then yields IdErr and the callers turn it into the    *)
(* "IndexError" outcome.                                                   *)
(***************************************************************************)
IdErr == -1

R(m, e) == [m |-> m, err |-> e]

NullMatcher == [type |-> "null"]

\* ListMatcher.__init__(ids, position, weight=wt); position is 0-based as in
\* the source.  Field obj tells the Python objects apart: 0 is the object
\* the caller built, copy() makes a new one.
ListMatcher_init(ids, position, wt) ==
    [type |-> "list", ids |-> ids, i |-> position, weight |-> wt,
     obj |-> 0]

\* ListMatcher(ids): position=0, weight=1.0
ListMatcher(ids) == ListMatcher_init(ids, 0, 1)

\* Method calls are dispatched on the class of the receiver by Dispatch
\* (defined after the classes); these are the call forms m.is_active(),
\* m.id(), m.next(), m.skip_to(t), m.all_ids(), m.score(), m.weight(),
\* m.copy() and m.replace().
RECURSIVE Dispatch(_, _, _)

score(m) == Dispatch("score", m, 0)

weight(m) == Dispatch("weight", m, 0)

copy(m) == Dispatch("copy", m, 0)

replace(m) == Dispatch("replace", m, 0)

is_active(m) == Dispatch("is_active", m, 0)

id(m) == Dispatch("id", m, 0)

next(m) == Dispatch("next", m, 0)

skip_to(m, t) == Dispatch("skip_to", m, t)

all_ids(m) == Dispatch("all_ids", m, 0)

block_quality(m) == Dispatch("block_quality", m, 0)

skip_to_quality(m, minquality) == Dispatch("skip_to_quality", m, minquality)

\* the call of the class named kind, and the loop over a matcher
construct(kind, inp, opt) ==
    Dispatch("construct", [kind |-> kind, inp |-> inp, opt |-> opt], 0)

iterate(m) == Dispatch("iterate", m, 0)

\* Matcher.skip_to: while self.is_active() and self.id() < id: self.next()
RECURSIVE Matcher_skip_to(_, _)
Matcher_skip_to(m, t) ==
    IF is_active(m)
    THEN LET cur == id(m) IN
         IF cur = IdErr THEN R(m, "IndexError")
         ELSE IF cur < t
              THEN LET r == next(m) IN
                   IF r.err # "none" THEN r ELSE Matcher_skip_to(r.m, t)
              ELSE R(m, "none")
    ELSE R(m, "none")

-----------------------------------------------------------------------------
\* ListMatcher
ListMatcher_is_active(m) == m.i < Len(m.ids)

ListMatcher_id(m) == IF m.i < Len(m.ids) THEN m.ids[m.i + 1] ELSE IdErr

ListMatcher_next(m) == R([m EXCEPT !.i = @ + 1], "none")

ListMatcher_all_ids(m) == m.ids

\* ListMatcher.copy: a new object with a copy of the list, the same
\* position and the same weight
ListMatcher_copy(m) == R([m EXCEPT !.obj = @ + 1], "none")

\* Matcher.all_ids: the ids collected by is_active()/id()/next() (the
\* replace() after every tenth id is beyond the lists modelled)
RECURSIVE Matcher_all_ids(_)
Matcher_all_ids(m) ==
    IF is_active(m) /\ id(m) # IdErr
    THEN LET r == next(m) IN
         IF r.err # "none" THEN <<id(m)>>
         ELSE <<id(m)>> \o Matcher_all_ids(r.m)
    ELSE <<>>

-----------------------------------------------------------------------------
\* WrappingMatcher
WrappingMatcher(child, boost) ==
    [type |-> "wrap", child |-> child, boost |-> boost]

WrappingMatcher_next(m) ==
    LET r == next(m.child) IN R([m EXCEPT !.child = r.m], r.err)

WrappingMatcher_skip_to(m, t) ==
    LET r == skip_to(m.child, t) IN R([m EXCEPT !.child = r.m], r.err)

\* WrappingMatcher.replace, inherited by ExcludeMatcher and InverseMatcher:
\* self.__class__(r) passes the new child alone, so the boost falls back
\* to 1.0 and the constructors that need more arguments raise TypeError
WrappingMatcher_replace(m) ==
    LET rr == replace(m.child) IN
    IF rr.err # "none" THEN R(m, rr.err)
    ELSE IF ~is_active(rr.m) THEN R(NullMatcher, "none")
    ELSE IF rr.m # m.child
         THEN IF m.type = "wrap" THEN R(WrappingMatcher(rr.m, 1), "none")
              ELSE R(m, "TypeError")
    ELSE R(m, "none")

\* WrappingMatcher.copy
WrappingMatcher_copy(m) ==
    LET rc == copy(m.child) IN
    IF rc.err # "none" THEN R(m, rc.err)
    ELSE R(WrappingMatcher(rc.m, m.boost), "none")

-----------------------------------------------------------------------------
\* MultiMatcher: matchers and offsets are sequences, current is 0-based
MultiMatcher_is_active(m) == m.current < Len(m.matchers)

RECURSIVE MultiMatcher_next_matcher(_)
MultiMatcher_next_matcher(m) ==
    IF m.current < Len(m.matchers) /\ ~is_active(m.matchers[m.current + 1])
    THEN MultiMatcher_next_matcher([m EXCEPT !.current = @ + 1])
    ELSE m

\* MultiMatcher.__init__
MultiMatcher(matchers, idoffsets, current) ==
    MultiMatcher_next_matcher([type |-> "multi", matchers |-> matchers,
                               offsets |-> idoffsets, current |-> current])

\* matchers[current].id() + offsets[current]; IndexError past the end of
\* the list of matchers or from the current matcher's id()
MultiMatcher_id(m) ==
    IF m.current >= Len(m.matchers) THEN IdErr
    ELSE IF id(m.matchers[m.current + 1]) = IdErr THEN IdErr
    ELSE id(m.matchers[m.current + 1]) + m.offsets[m.current + 1]

MultiMatcher_next(m) ==
    IF ~MultiMatcher_is_active(m) THEN R(m, "ReadTooFar")
    ELSE LET r == next(m.matchers[m.current + 1])
             m1 == [m EXCEPT !.matchers[m.current + 1] = r.m]
         IN  IF r.err # "none" THEN R(m1, r.err)
             ELSE IF ~is_active(r.m) THEN R(MultiMatcher_next_matcher(m1), "none")
             ELSE R(m1, "none")

\* the while loop of MultiMatcher.skip_to: after current += 1 the condition
\* calls self.id() on the next matcher without asking whether it is active
RECURSIVE MultiMatcher_skip_loop(_, _)
MultiMatcher_skip_loop(m, t) ==
    IF m.current < Len(m.matchers)
    THEN IF MultiMatcher_id(m) = IdErr THEN R(m, "IndexError")
         ELSE IF t > MultiMatcher_id(m)
              THEN LET sr == skip_to(m.matchers[m.current + 1],
                                     t - m.offsets[m.current + 1])
                       m1 == [m EXCEPT !.matchers[m.current + 1] = sr.m]
                   IN  IF sr.err # "none" THEN R(m1, sr.err)
                       ELSE IF is_active(sr.m) THEN R(m1, "none")
                       ELSE MultiMatcher_skip_loop(
                                [m1 EXCEPT !.current = @ + 1], t)
              ELSE R(m, "none")
    ELSE R(m, "none")

MultiMatcher_skip_to(m, t) ==
    IF ~MultiMatcher_is_active(m) THEN R(m, "ReadTooFar")
    ELSE IF MultiMatcher_id(m) = IdErr THEN R(m, "IndexError")
    ELSE IF t <= MultiMatcher_id(m) THEN R(m, "none")
    ELSE MultiMatcher_skip_loop(m, t)

RECURSIVE MultiMatcher_all_ids_from(_, _)
MultiMatcher_all_ids_from(m, k) ==
    IF k > Len(m.matchers) THEN <<>>
    ELSE LET ids == all_ids(m.matchers[k]) IN
         [j \in 1..Len(ids) |-> ids[j] + m.offsets[k]]
             \o MultiMatcher_all_ids_from(m, k + 1)

MultiMatcher_all_ids(m) == MultiMatcher_all_ids_from(m, 1)

\* MultiMatcher.copy: the class is called with the copies of
\* self.matchers[self.current:], with self.offsets[self.current:] and with
\* current=self.current, an index into the unsliced lists
MultiMatcher_copy(m) ==
    LET n == Len(m.matchers)
        rs == [k \in 1..(n - m.current) |-> copy(m.matchers[m.current + k])]
        offs == [k \in 1..(n - m.current) |-> m.offsets[m.current + k]]
    IN  IF \E k \in DOMAIN rs : rs[k].err # "none"
        THEN R(m, rs[CHOOSE k \in DOMAIN rs : rs[k].err # "none"].err)
        ELSE R(MultiMatcher([k \in DOMAIN rs |-> rs[k].m], offs, m.current),
               "none")

\* MultiMatcher.replace
MultiMatcher_replace(m) ==
    IF ~MultiMatcher_is_active(m) THEN R(NullMatcher, "none") ELSE R(m, "none")

-----------------------------------------------------------------------------
\* ExcludeMatcher
RECURSIVE ExcludeMatcher_find_next(_)
ExcludeMatcher_find_next(m) ==
    IF is_active(m.child) /\ id(m.child) \in m.excluded
    THEN LET r == next(m.child)
             m1 == [m EXCEPT !.child = r.m]
         IN  IF r.err # "none" THEN R(m1, r.err)
             ELSE ExcludeMatcher_find_next(m1)
    ELSE R(m, "none")

\* ExcludeMatcher.__init__
ExcludeMatcher(child, excluded) ==
    ExcludeMatcher_find_next([type |-> "exclude", child |-> child,
                              excluded |-> excluded, boost |-> 1])

ExcludeMatcher_next(m) ==
    LET r == next(m.child)
        m1 == [m EXCEPT !.child = r.m]
    IN  IF r.err # "none" THEN R(m1, r.err)
        ELSE ExcludeMatcher_find_next(m1)

\* skip_to that leaves the child where child.skip_to put it
ExcludeMatcher_skip_to_nofind(m, t) ==
    LET r == skip_to(m.child, t) IN R([m EXCEPT !.child = r.m], r.err)

ExcludeMatcher_skip_to(m, t) ==
    LET r == skip_to(m.child, t)
        m1 == [m EXCEPT !.child = r.m]
    IN  IF r.err # "none" THEN R(m1, r.err)
        ELSE ExcludeMatcher_find_next(m1)

ExcludeMatcher_all_ids(m) ==
    FilterSeq(all_ids(m.child), Range(all_ids(m.child)) \ m.excluded)

\* ExcludeMatcher.copy
ExcludeMatcher_copy(m) ==
    LET rc == copy(m.child) IN
    IF rc.err # "none" THEN R(m, rc.err)
    ELSE LET r == ExcludeMatcher(rc.m, m.excluded) IN
         R([r.m EXCEPT !.boost = m.boost], r.err)

-----------------------------------------------------------------------------
\* UnionMatcher
UnionMatcher(a, b) == [type |-> "union", a |-> a, b |-> b]

UnionMatcher_is_active(m) == is_active(m.a) \/ is_active(m.b)

UnionMatcher_id(m) ==
    IF ~is_active(m.a) THEN id(m.b)
    ELSE IF ~is_active(m.b) THEN id(m.a)
    ELSE IF id(m.a) = IdErr \/ id(m.b) = IdErr THEN IdErr
    ELSE IF id(m.a) <= id(m.b) THEN id(m.a) ELSE id(m.b)

UnionMatcher_skip_to(m, t) ==
    LET ra == IF is_active(m.a) THEN skip_to(m.a, t) ELSE R(m.a, "none")
        m1 == [m EXCEPT !.a = ra.m]
    IN  IF ra.err # "none" THEN R(m1, ra.err)
        ELSE LET rb == IF is_active(m.b) THEN skip_to(m.b, t)
                       ELSE R(m.b, "none")
             IN  R([m1 EXCEPT !.b = rb.m], rb.err)

\* next() that advances only a when both children sit on the same id
UnionMatcher_next_a_only(m) ==
    LET a_active == is_active(m.a)
        b_active == is_active(m.b)
    IN  IF ~(a_active \/ b_active) THEN R(m, "ReadTooFar")
        ELSE IF ~a_active
             THEN LET rb == next(m.b) IN R([m EXCEPT !.b = rb.m], rb.err)
        ELSE IF ~b_active
             THEN LET ra == next(m.a) IN R([m EXCEPT !.a = ra.m], ra.err)
        ELSE IF id(m.a) <= id(m.b)
             THEN LET ra == next(m.a) IN R([m EXCEPT !.a = ra.m], ra.err)
             ELSE LET rb == next(m.b) IN R([m EXCEPT !.b = rb.m], rb.err)

UnionMatcher_next(m) ==
    LET a_active == is_active(m.a)
        b_active == is_active(m.b)
    IN  IF ~(a_active \/ b_active) THEN R(m, "ReadTooFar")
        ELSE IF ~a_active
             THEN LET rb == next(m.b) IN R([m EXCEPT !.b = rb.m], rb.err)
        ELSE IF ~b_active
             THEN LET ra == next(m.a) IN R([m EXCEPT !.a = ra.m], ra.err)
        ELSE LET a_id == id(m.a)
                 b_id == id(m.b)
             IN  IF a_id = IdErr \/ b_id = IdErr THEN R(m, "IndexError")
                 ELSE LET ra == IF a_id <= b_id THEN next(m.a)
                                ELSE R(m.a, "none")
                          m1 == [m EXCEPT !.a = ra.m]
                      IN  IF ra.err # "none" THEN R(m1, ra.err)
                          ELSE LET rb == IF b_id <= a_id THEN next(m.b)
                                         ELSE R(m.b, "none")
                               IN  R([m1 EXCEPT !.b = rb.m], rb.err)

UnionMatcher_all_ids(m) ==
    SortedSeq(Range(all_ids(m.a)) \cup Range(all_ids(m.b)))

-----------------------------------------------------------------------------
\* IntersectionMatcher
IntersectionMatcher_is_active(m) == is_active(m.a) /\ is_active(m.b)

\* the while loop of IntersectionMatcher._find_next
RECURSIVE IntersectionMatcher_find_loop(_, _, _)
IntersectionMatcher_find_loop(m, a_id, b_id) ==
    IF is_active(m.a) /\ is_active(m.b) /\ a_id # b_id
    THEN IF a_id < b_id
         THEN LET ra == skip_to(m.a, b_id)
                  m1 == [m EXCEPT !.a = ra.m]
              IN  IF ra.err # "none" THEN R(m1, ra.err)
                  ELSE IF ~is_active(m1.a) THEN R(m1, "none")
                  ELSE IF id(m1.a) = IdErr THEN R(m1, "IndexError")
                  ELSE IntersectionMatcher_find_loop(m1, id(m1.a), b_id)
         ELSE LET rb == skip_to(m.b, a_id)
                  m1 == [m EXCEPT !.b = rb.m]
              IN  IF rb.err # "none" THEN R(m1, rb.err)
                  ELSE IF ~is_active(m1.b) THEN R(m1, "none")
                  ELSE IF id(m1.b) = IdErr THEN R(m1, "IndexError")
                  ELSE IntersectionMatcher_find_loop(m1, a_id, id(m1.b))
    ELSE R(m, "none")

IntersectionMatcher_find_next(m) ==
    LET a_id == id(m.a)
        b_id == id(m.b)
    IN  IF a_id = IdErr \/ b_id = IdErr THEN R(m, "IndexError")
        ELSE IF a_id = b_id THEN R(m, "AssertionError")
        ELSE IntersectionMatcher_find_loop(m, a_id, b_id)

\* IntersectionMatcher.__init__
IntersectionMatcher(a, b) ==
    LET m == [type |-> "isect", a |-> a, b |-> b] IN
    IF is_active(a) /\ is_active(b)
    THEN IF id(a) = IdErr \/ id(b) = IdErr THEN R(m, "IndexError")
         ELSE IF id(a) # id(b) THEN IntersectionMatcher_find_next(m)
         ELSE R(m, "none")
    ELSE R(m, "none")

IntersectionMatcher_id(m) == id(m.a)

\* next() that advances a and does not look for the next common id
IntersectionMatcher_next_nofind(m) ==
    IF ~IntersectionMatcher_is_active(m) THEN R(m, "ReadTooFar")
    ELSE LET ra == next(m.a) IN R([m EXCEPT !.a = ra.m], ra.err)

IntersectionMatcher_next(m) ==
    IF ~IntersectionMatcher_is_active(m) THEN R(m, "ReadTooFar")
    ELSE LET ra == next(m.a)
             m1 == [m EXCEPT !.a = ra.m]
         IN  IF ra.err # "none" THEN R(m1, ra.err)
             ELSE IF IntersectionMatcher_is_active(m1)
                  THEN IntersectionMatcher_find_next(m1)
                  ELSE R(m1, "none")

IntersectionMatcher_skip_to(m, t) ==
    IF ~IntersectionMatcher_is_active(m) THEN R(m, "ReadTooFar")
    ELSE LET ra == skip_to(m.a, t)
             m1 == [m EXCEPT !.a = ra.m]
         IN  IF ra.err # "none" THEN R(m1, ra.err)
             ELSE LET rb == skip_to(m.b, t)
                      m2 == [m1 EXCEPT !.b = rb.m]
                  IN  IF rb.err # "none" THEN R(m2, rb.err)
                      ELSE IF IntersectionMatcher_is_active(m2)
                           THEN IF id(m2.a) = IdErr \/ id(m2.b) = IdErr
                                THEN R(m2, "IndexError")
                                ELSE IF id(m2.a) # id(m2.b)
                                     THEN IntersectionMatcher_find_next(m2)
                                     ELSE R(m2, "none")
                           ELSE R(m2, "none")

IntersectionMatcher_all_ids(m) ==
    SortedSeq(Range(all_ids(m.a)) \cap Range(all_ids(m.b)))

-----------------------------------------------------------------------------
\* AndNotMatcher
AndNotMatcher_is_active(m) == is_active(m.a)

AndNotMatcher_id(m) == id(m.a)

\* the while loop of AndNotMatcher._find_next
RECURSIVE AndNotMatcher_find_loop(_, _)
AndNotMatcher_find_loop(m, pos_id) ==
    IF is_active(m.b) /\ pos_id = id(m.b)
    THEN LET rp == next(m.a)
             m1 == [m EXCEPT !.a = rp.m]
         IN  IF rp.err # "none" THEN R(m1, rp.err)
             ELSE LET nid == id(m1.a) IN
                  IF nid = IdErr THEN R(m1, "IndexError")
                  ELSE LET rn == skip_to(m1.b, nid)
                           m2 == [m1 EXCEPT !.b = rn.m]
                       IN  IF rn.err # "none" THEN R(m2, rn.err)
                           ELSE AndNotMatcher_find_loop(m2, nid)
    ELSE R(m, "none")

AndNotMatcher_find_next(m) ==
    IF ~is_active(m.b) THEN R(m, "none")
    ELSE LET pos_id == id(m.a) IN
         IF pos_id = IdErr THEN R(m, "IndexError")
         ELSE LET rn == IF id(m.b) < pos_id THEN skip_to(m.b, pos_id)
                        ELSE R(m.b, "none")
                  m1 == [m EXCEPT !.b = rn.m]
              IN  IF rn.err # "none" THEN R(m1, rn.err)
                  ELSE AndNotMatcher_find_loop(m1, pos_id)

\* AndNotMatcher.__init__
AndNotMatcher(a, b) ==
    LET m == [type |-> "andnot", a |-> a, b |-> b] IN
    IF is_active(a) /\ is_active(b)
    THEN IF id(a) = IdErr \/ id(b) = IdErr THEN R(m, "IndexError")
         ELSE IF id(a) # id(b) THEN AndNotMatcher_find_next(m)
         ELSE R(m, "none")
    ELSE R(m, "none")

AndNotMatcher_next(m) ==
    IF ~is_active(m.a) THEN R(m, "ReadTooFar")
    ELSE LET ra == next(m.a)
             m1 == [m EXCEPT !.a = ra.m]
         IN  IF ra.err # "none" THEN R(m1, ra.err)
             ELSE IF is_active(m1.b) THEN AndNotMatcher_find_next(m1)
                  ELSE R(m1, "none")

AndNotMatcher_skip_to(m, t) ==
    IF ~is_active(m.a) THEN R(m, "ReadTooFar")
    ELSE IF id(m.a) = IdErr THEN R(m, "IndexError")
    ELSE IF t < id(m.a) THEN R(m, "none")
    ELSE LET ra == skip_to(m.a, t)
             m1 == [m EXCEPT !.a = ra.m]
         IN  IF ra.err # "none" THEN R(m1, ra.err)
             ELSE IF is_active(m1.b)
                  THEN LET rb == skip_to(m1.b, t)
                           m2 == [m1 EXCEPT !.b = rb.m]
                       IN  IF rb.err # "none" THEN R(m2, rb.err)
                           ELSE AndNotMatcher_find_next(m2)
                  ELSE R(m1, "none")

AndNotMatcher_all_ids(m) ==
    SortedSeq(Range(all_ids(m.a)) \ Range(all_ids(m.b)))

-----------------------------------------------------------------------------
\* score() that adds the two children's scores wherever they stand
UnionMatcher_score_added(m) == score(m.a) + score(m.b)

\* UnionMatcher.score
UnionMatcher_score(m) ==
    IF ~is_active(m.a) THEN score(m.b)
    ELSE IF ~is_active(m.b) THEN score(m.a)
    ELSE IF id(m.a) < id(m.b) THEN score(m.a)
    ELSE IF id(m.b) < id(m.a) THEN score(m.b)
    ELSE score(m.a) + score(m.b)

-----------------------------------------------------------------------------
\* DisjunctionMaxMatcher: a UnionMatcher with its own score() and copy()
DisjunctionMaxMatcher(a, b, tiebreak) ==
    [type |-> "dismax", a |-> a, b |-> b, tiebreak |-> tiebreak]

\* max(self.a.score(), self.b.score()): neither the children's ids nor
\* their activity nor self.tiebreak is looked at
DisjunctionMaxMatcher_score(m) ==
    IF score(m.a) >= score(m.b) THEN score(m.a) ELSE score(m.b)

-----------------------------------------------------------------------------
\* InverseMatcher: missing is the set of ids the predicate holds for,
\* docid is self._id
InverseMatcher_missing(m, x) == x \in m.missing

\* the builtin function id, which line 997 passes to missing (no local
\* variable is called id there); it is no document number
builtin_id == -2

\* the while loop of InverseMatcher._find_next
RECURSIVE InverseMatcher_find_loop(_)
InverseMatcher_find_loop(m) ==
    IF m.docid < m.limit
       /\ ((is_active(m.child) /\ m.docid = id(m.child))
              \/ InverseMatcher_missing(m, builtin_id))
    THEN LET m1 == [m EXCEPT !.docid = @ + 1] IN
         IF is_active(m.child)
         THEN LET r == next(m.child)
                  m2 == [m1 EXCEPT !.child = r.m]
              IN  IF r.err # "none" THEN R(m2, r.err)
                  ELSE InverseMatcher_find_loop(m2)
         ELSE InverseMatcher_find_loop(m1)
    ELSE R(m, "none")

InverseMatcher_find_next(m) ==
    IF ~is_active(m.child) /\ ~InverseMatcher_missing(m, m.docid)
    THEN R(m, "none")
    ELSE LET rs == IF is_active(m.child) /\ id(m.child) < m.docid
                   THEN skip_to(m.child, m.docid)
                   ELSE R(m.child, "none")
             m1 == [m EXCEPT !.child = rs.m]
         IN  IF rs.err # "none" THEN R(m1, rs.err)
             ELSE InverseMatcher_find_loop(m1)

\* InverseMatcher.__init__
InverseMatcher(child, limit, missing, wt) ==
    InverseMatcher_find_next([type |-> "inverse", child |-> child,
                              limit |-> limit, missing |-> missing,
                              weight |-> wt, docid |-> 0])

\* InverseMatcher.copy: the class is called with the copy of the child, the
\* limit, the weight and missing; __init__ sets _id = 0 and runs _find_next
InverseMatcher_copy(m) ==
    LET rc == copy(m.child) IN
    IF rc.err # "none" THEN R(m, rc.err)
    ELSE InverseMatcher(rc.m, m.limit, m.missing, m.weight)

InverseMatcher_is_active(m) == m.docid < m.limit

InverseMatcher_next(m) ==
    IF m.docid >= m.limit THEN R(m, "ReadTooFar")
    ELSE InverseMatcher_find_next([m EXCEPT !.docid = @ + 1])

InverseMatcher_skip_to(m, t) ==
    IF m.docid >= m.limit THEN R(m, "ReadTooFar")
    ELSE IF t < m.docid THEN R(m, "none")
    ELSE InverseMatcher_find_next([m EXCEPT !.docid = t])

InverseMatcher_all_ids(m) ==
    SortedSeq({x \in 0..(m.limit - 1) :
                  x \notin Range(all_ids(m.child))
                  /\ ~InverseMatcher_missing(m, x)})

-----------------------------------------------------------------------------
\* RequireMatcher: self.a and self.b are the objects self.child holds, so
\* the record keeps the IntersectionMatcher alone
RequireMatcher(a, b) ==
    LET r == IntersectionMatcher(a, b) IN
    R([type |-> "require", child |-> r.m], r.err)

\* score() of the IntersectionMatcher, which adds b's score
RequireMatcher_score_both(m) == score(m.child)

\* RequireMatcher.score: self.a.score()
RequireMatcher_score(m) == score(m.child.a)

\* RequireMatcher.replace
RequireMatcher_replace(m) ==
    IF ~is_active(m.child) THEN R(NullMatcher, "none") ELSE R(m, "none")

-----------------------------------------------------------------------------
\* AndMaybeMatcher
AndMaybeMatcher(a, b) ==
    LET m == [type |-> "andmaybe", a |-> a, b |-> b] IN
    IF is_active(a) /\ is_active(b) /\ id(a) # id(b)
    THEN LET rb == skip_to(b, id(a)) IN R([m EXCEPT !.b = rb.m], rb.err)
    ELSE R(m, "none")

AndMaybeMatcher_next(m) ==
    IF ~is_active(m.a) THEN R(m, "ReadTooFar")
    ELSE LET ra == next(m.a)
             m1 == [m EXCEPT !.a = ra.m]
         IN  IF ra.err # "none" THEN R(m1, ra.err)
             ELSE IF is_active(m1.a) /\ is_active(m1.b)
                  THEN LET rb == skip_to(m1.b, id(m1.a)) IN
                       R([m1 EXCEPT !.b = rb.m], rb.err)
                  ELSE R(m1, "none")

\* AndMaybeMatcher.skip_to: b is moved to the id asked for, not to a.id()
AndMaybeMatcher_skip_to(m, t) ==
    IF ~is_active(m.a) THEN R(m, "ReadTooFar")
    ELSE LET ra == skip_to(m.a, t)
             m1 == [m EXCEPT !.a = ra.m]
         IN  IF ra.err # "none" THEN R(m1, ra.err)
             ELSE IF is_active(m1.a) /\ is_active(m1.b)
                  THEN LET rb == skip_to(m1.b, t) IN
                       R([m1 EXCEPT !.b = rb.m], rb.err)
                  ELSE R(m1, "none")

AndMaybeMatcher_score(m) ==
    IF is_active(m.b) /\ id(m.a) = id(m.b)
    THEN score(m.a) + score(m.b)
    ELSE score(m.a)

-----------------------------------------------------------------------------
\* self.__class__(a, b) of the two-child classes, as copy() and replace()
\* call it (a DisjunctionMaxMatcher built so gets tiebreak=0.0)
BiMatcher_class(type, a, b) ==
    CASE type = "union" -> R(UnionMatcher(a, b), "none")
      [] type = "dismax" -> R(DisjunctionMaxMatcher(a, b, 0), "none")
      [] type = "isect" -> IntersectionMatcher(a, b)
      [] type = "andnot" -> AndNotMatcher(a, b)
      [] type = "andmaybe" -> AndMaybeMatcher(a, b)

\* copy() that builds the new matcher over the same two children
BiMatcher_copy_shallow(m) == BiMatcher_class(m.type, m.a, m.b)

\* BiMatcher.copy: self.__class__(self.a.copy(), self.b.copy())
BiMatcher_copy(m) ==
    LET ra == copy(m.a) IN
    IF ra.err # "none" THEN R(m, ra.err)
    ELSE LET rb == copy(m.b) IN
         IF rb.err # "none" THEN R(m, rb.err)
         ELSE BiMatcher_class(m.type, ra.m, rb.m)

\* RequireMatcher.copy
RequireMatcher_copy(m) ==
    LET ra == copy(m.child.a) IN
    IF ra.err # "none" THEN R(m, ra.err)
    ELSE LET rb == copy(m.child.b) IN
         IF rb.err # "none" THEN R(m, rb.err)
         ELSE RequireMatcher(ra.m, rb.m)

\* UnionMatcher.replace (inherited by DisjunctionMaxMatcher)
UnionMatcher_replace(m) ==
    LET ra == replace(m.a) IN
    IF ra.err # "none" THEN R(m, ra.err)
    ELSE LET rb == replace(m.b) IN
         IF rb.err # "none" THEN R(m, rb.err)
         ELSE IF ~(is_active(ra.m) \/ is_active(rb.m))
              THEN R(NullMatcher, "none")
         ELSE IF ~is_active(ra.m) THEN R(rb.m, "none")
         ELSE IF ~is_active(rb.m) THEN R(ra.m, "none")
         ELSE IF ra.m # m.a \/ rb.m # m.b
              THEN BiMatcher_class(m.type, ra.m, rb.m)
         ELSE R(m, "none")

\* IntersectionMatcher.replace: a_active = a is the matcher object, which
\* is always true, so only b's activity decides
IntersectionMatcher_replace(m) ==
    LET ra == replace(m.a) IN
    IF ra.err # "none" THEN R(m, ra.err)
    ELSE LET rb == replace(m.b) IN
         IF rb.err # "none" THEN R(m, rb.err)
         ELSE IF ~is_active(rb.m) THEN R(NullMatcher, "none")
         ELSE IF ra.m # m.a \/ rb.m # m.b
              THEN BiMatcher_class(m.type, ra.m, rb.m)
         ELSE R(m, "none")

\* AndNotMatcher.replace
AndNotMatcher_replace(m) ==
    IF ~is_active(m.a) THEN R(NullMatcher, "none")
    ELSE IF ~is_active(m.b) THEN R(m.a, "none")
    ELSE R(m, "none")

\* AndMaybeMatcher.replace
AndMaybeMatcher_replace(m) ==
    LET ra == replace(m.a) IN
    IF ra.err # "none" THEN R(m, ra.err)
    ELSE LET rb == replace(m.b) IN
         IF rb.err # "none" THEN R(m, rb.err)
         ELSE IF ~is_active(ra.m) THEN R(NullMatcher, "none")
         ELSE IF ~is_active(rb.m) THEN R(ra.m, "none")
         ELSE IF ra.m # m.a \/ rb.m # m.b
              THEN BiMatcher_class(m.type, ra.m, rb.m)
         ELSE R(m, "none")

-----------------------------------------------------------------------------
\* PhraseMatcher.  A word matcher is the posting reader of one word: the
\* documents holding the word and, for each of them, the ascending list of
\* the word's positions in it (the "positions" payload).
PostingMatcher(ids, poses) ==
    [type |-> "list", ids |-> ids, i |-> 0, weight |-> 1, obj |-> 0,
     poses |-> poses]

\* Matcher.positions of a posting reader: value_as("positions")
positions(m) == m.poses[m.i + 1]

\* bisect.bisect_right on an ascending list: the number of entries <= x
bisect_right(a, x) == Cardinality({k \in DOMAIN a : a[k] <= x})

\* bisect.bisect_left on an ascending list: the number of entries < x
bisect_left(a, x) == Cardinality({k \in DOMAIN a : a[k] < x})

\* whoosh.util.make_binary_tree(IntersectionMatcher, args)
RECURSIVE make_binary_tree(_)
make_binary_tree(args) ==
    IF Len(args) = 1 THEN R(args[1], "none")
    ELSE LET half == Len(args) \div 2
             l == make_binary_tree(SubSeq(args, 1, half))
             r == make_binary_tree(SubSeq(args, half + 1, Len(args)))
         IN  IF l.err # "none" THEN l
             ELSE IF r.err # "none" THEN r
             ELSE IntersectionMatcher(l.m, r.m)

\* self.wordmatchers: the leaves of the tree are the very objects of the
\* list the tree was built from, in its order
RECURSIVE PhraseMatcher_wordmatchers(_)
PhraseMatcher_wordmatchers(m) ==
    IF m.type = "isect"
    THEN PhraseMatcher_wordmatchers(m.a) \o PhraseMatcher_wordmatchers(m.b)
    ELSE <<m>>

\* newposes that keeps every position of the next word
PhraseMatcher_newposes_all(current, poslist, slop) ==
    IF current = <<>> THEN <<>> ELSE poslist

\* PhraseMatcher._find_next, "for newpos in poslist": newpos is appended
\* once for every curpos of current[start:end] with 0 < delta <= slop
RECURSIVE PhraseMatcher_newposes(_, _, _)
PhraseMatcher_newposes(current, poslist, slop) ==
    IF poslist = <<>> THEN <<>>
    ELSE LET newpos == Head(poslist)
             start == bisect_left(current, newpos - slop)
             end == bisect_right(current, newpos)
             hits == SelectSeq(SubSeq(current, start + 1, end),
                               LAMBDA curpos : /\ newpos - curpos > 0
                                               /\ newpos - curpos <= slop)
         IN  [j \in 1..Len(hits) |-> newpos]
                 \o PhraseMatcher_newposes(current, Tail(poslist), slop)

\* PhraseMatcher._find_next, "for poslist in poses[1:]", with its break
RECURSIVE PhraseMatcher_current(_, _, _)
PhraseMatcher_current(current, poses, slop) ==
    IF poses = <<>> THEN current
    ELSE LET newposes == PhraseMatcher_newposes(current, Head(poses), slop)
         IN  IF newposes = <<>> THEN <<>>
             ELSE PhraseMatcher_current(newposes, Tail(poses), slop)

\* PhraseMatcher._find_next
RECURSIVE PhraseMatcher_find_next(_)
PhraseMatcher_find_next(m) ==
    IF ~is_active(m.child) THEN R([m EXCEPT !.count = 0], "none")
    ELSE LET words == PhraseMatcher_wordmatchers(m.child)
             poses == [w \in 1..Len(words) |-> positions(words[w])]
             current == PhraseMatcher_current(Head(poses), Tail(poses),
                                              m.slop)
         IN  IF current # <<>>
             THEN R([m EXCEPT !.count = Len(current)], "none")
             ELSE LET r == next(m.child) IN
                  IF r.err # "none" THEN R([m EXCEPT !.child = r.m], r.err)
                  ELSE PhraseMatcher_find_next([m EXCEPT !.child = r.m])

\* PhraseMatcher.__init__
PhraseMatcher(wordmatchers, slop, boost) ==
    LET t == make_binary_tree(wordmatchers) IN
    IF t.err # "none" THEN R(NullMatcher, t.err)
    ELSE PhraseMatcher_find_next([type |-> "phrase", child |-> t.m,
                                  slop |-> slop, boost |-> boost,
                                  count |-> 0])

PhraseMatcher_next(m) ==
    LET r == next(m.child)
        m1 == [m EXCEPT !.child = r.m]
    IN  IF r.err # "none" THEN R(m1, r.err)
        ELSE PhraseMatcher_find_next(m1)

PhraseMatcher_skip_to(m, t) ==
    LET r == skip_to(m.child, t)
        m1 == [m EXCEPT !.child = r.m]
    IN  IF r.err # "none" THEN R(m1, r.err)
        ELSE PhraseMatcher_find_next(m1)

\* PhraseMatcher.replace
PhraseMatcher_replace(m) ==
    IF ~is_active(m.child) THEN R(NullMatcher, "none") ELSE R(m, "none")

-----------------------------------------------------------------------------
\* Block-structured posting reader (the backend's PostingReader): the
\* postings ids with their weights wts, stored in blocks of bsize postings.
\* It is a cursor like ListMatcher (position i, 0-based); the score of a
\* posting is its weight.
BlockMatcher(ids, wts, bsize) ==
    [type |-> "block", ids |-> ids, wts |-> wts, bsize |-> bsize, i |-> 0,
     obj |-> 0]

BlockMatcher_score(m) == m.wts[m.i + 1]

\* the postings (1-based) of the block the cursor is in
BlockMatcher_block(m) ==
    {k \in DOMAIN m.ids : (k - 1) \div m.bsize = m.i \div m.bsize}

\* the block's summary: the greatest weight of a posting of the block (the
\* callers read it from an exhausted reader only to drop it)
BlockMatcher_block_quality(m) ==
    IF BlockMatcher_block(m) = {} THEN 0
    ELSE CHOOSE q \in {m.wts[k] : k \in BlockMatcher_block(m)} :
             \A k \in BlockMatcher_block(m) : m.wts[k] <= q

\* skip_to_quality(minquality): while the reader is active and its block's
\* quality is not greater than minquality, go to the start of the next block
RECURSIVE BlockMatcher_skip_to_quality(_, _)
BlockMatcher_skip_to_quality(m, minquality) ==
    IF m.i < Len(m.ids) /\ BlockMatcher_block_quality(m) <= minquality
    THEN BlockMatcher_skip_to_quality(
             [m EXCEPT !.i = ((m.i \div m.bsize) + 1) * m.bsize], minquality)
    ELSE R(m, "none")

\* AdditiveBiMatcher.block_quality
AdditiveBiMatcher_block_quality(m) ==
    (IF is_active(m.a) THEN block_quality(m.a) ELSE 0)
        + (IF is_active(m.b) THEN block_quality(m.b) ELSE 0)

\* the while loop of UnionMatcher.skip_to_quality (aq and bq are the block
\* qualities of the children where they stand)
RECURSIVE UnionMatcher_skip_loop(_, _)
UnionMatcher_skip_loop(m, minquality) ==
    LET aq == block_quality(m.a)
        bq == block_quality(m.b)
    IN  IF is_active(m.a) /\ is_active(m.b) /\ aq + bq <= minquality
        THEN IF aq < bq
             THEN LET ra == skip_to_quality(m.a, minquality - bq)
                      m1 == [m EXCEPT !.a = ra.m]
                  IN  IF ra.err # "none" THEN R(m1, ra.err)
                      ELSE UnionMatcher_skip_loop(m1, minquality)
             ELSE LET rb == skip_to_quality(m.b, minquality - aq)
                      m1 == [m EXCEPT !.b = rb.m]
                  IN  IF rb.err # "none" THEN R(m1, rb.err)
                      ELSE UnionMatcher_skip_loop(m1, minquality)
        ELSE R(m, "none")

\* skip_to_quality that leaves the union where it is
UnionMatcher_skip_to_quality_stay(m, minquality) == R(m, "none")

\* UnionMatcher.skip_to_quality
UnionMatcher_skip_to_quality(m, minquality) ==
    IF ~is_active(m.a)
    THEN LET rb == skip_to_quality(m.b, minquality) IN
         R([m EXCEPT !.b = rb.m], rb.err)
    ELSE IF ~is_active(m.b)
    THEN LET ra == skip_to_quality(m.a, minquality) IN
         R([m EXCEPT !.a = ra.m], ra.err)
    ELSE UnionMatcher_skip_loop(m, minquality)

\* "if a.id() != b.id(): self._find_next()" of
\* IntersectionMatcher.skip_to_quality
IntersectionMatcher_refind(m) ==
    IF id(m.a) = IdErr \/ id(m.b) = IdErr THEN R(m, "IndexError")
    ELSE IF id(m.a) # id(m.b) THEN IntersectionMatcher_find_next(m)
    ELSE R(m, "none")

\* IntersectionMatcher.skip_to_quality
RECURSIVE IntersectionMatcher_skip_to_quality(_, _)
IntersectionMatcher_skip_to_quality(m, minquality) ==
    LET aq == block_quality(m.a)
        bq == block_quality(m.b)
    IN  IF is_active(m.a) /\ is_active(m.b) /\ aq + bq <= minquality
        THEN LET rs == IF aq < bq
                       THEN skip_to_quality(m.a, minquality - bq)
                       ELSE skip_to_quality(m.b, minquality - aq)
                 m1 == IF aq < bq THEN [m EXCEPT !.a = rs.m]
                       ELSE [m EXCEPT !.b = rs.m]
             IN  IF rs.err # "none" THEN R(m1, rs.err)
                 ELSE LET rf == IntersectionMatcher_refind(m1) IN
                      IF rf.err # "none" THEN rf
                      ELSE IntersectionMatcher_skip_to_quality(rf.m,
                                                               minquality)
        ELSE R(m, "none")

\* RequireMatcher.skip_to_quality: self.a and self.b are the children of
\* self.child
RequireMatcher_skip_to_quality(m, minquality) ==
    LET ra == skip_to_quality(m.child.a, minquality)
        m1 == [m EXCEPT !.child.a = ra.m]
    IN  IF ra.err # "none" THEN R(m1, ra.err)
        ELSE LET rf == IntersectionMatcher_find_next(m1.child) IN
             R([m1 EXCEPT !.child = rf.m], rf.err)

-----------------------------------------------------------------------------
\* Callers of the classes: the construction of a matcher of a given kind
\* and the loop that reads a matcher to its end.  Both are entries of
\* Dispatch, so that the method calls they make resolve as everywhere else.
\* the matcher of the given kind over fresh ListMatchers
BuildMatcher(kind, inp, opt) ==
    LET la == ListMatcher_init(inp.a, 0, opt.wa)
        lb == ListMatcher_init(inp.b, 0, opt.wb)
        lc == ListMatcher_init(inp.c, 0, opt.wc)
    IN
    CASE kind = "list" -> R(la, "none")
      [] kind = "union" -> R(UnionMatcher(la, lb), "none")
      [] kind = "union3" ->
            R(UnionMatcher(la, UnionMatcher(lb, lc)), "none")
      [] kind = "isect" -> IntersectionMatcher(la, lb)
      [] kind = "andnot" -> AndNotMatcher(la, lb)
      [] kind = "exclude" -> ExcludeMatcher(la, Range(inp.b))
      [] kind = "exclude_union" ->
            ExcludeMatcher(UnionMatcher(la, lb), Range(inp.c))
      [] kind = "wrap" ->
            R(WrappingMatcher(UnionMatcher(la, lb), opt.boost), "none")
      [] kind = "dismax" ->
            R(DisjunctionMaxMatcher(la, lb, opt.tiebreak), "none")
      [] kind = "require" -> RequireMatcher(la, lb)
      [] kind = "andmaybe" -> AndMaybeMatcher(la, lb)
      [] kind = "inverse" ->
            InverseMatcher(la, opt.limit, opt.missing, opt.wb)
      [] kind = "multi" ->
            R(MultiMatcher(<<la, lb>>, <<0, MaxId + 1>>, 0), "none")
      [] kind = "qunion" ->
            R(UnionMatcher(BlockMatcher(inp.a, inp.awts, inp.asize),
                           BlockMatcher(inp.b, inp.bwts, inp.bsize)), "none")
      [] kind = "qisect" ->
            IntersectionMatcher(BlockMatcher(inp.a, inp.awts, inp.asize),
                                BlockMatcher(inp.b, inp.bwts, inp.bsize))
      [] kind = "qrequire" ->
            RequireMatcher(BlockMatcher(inp.a, inp.awts, inp.asize),
                           BlockMatcher(inp.b, inp.bwts, inp.bsize))
      [] kind = "phrase" ->
            PhraseMatcher([w \in 1..Len(inp.words) |->
                              PostingMatcher(inp.words[w].ids,
                                             inp.words[w].poses)],
                          opt.slop, opt.boost)

\* the loop "while m.is_active(): ls.append((m.id(), m.score())); m.next()"
\* run on m: the ids and scores it collects and the exception that ends it
RECURSIVE Iterate(_)
Iterate(m) ==
    IF ~is_active(m) THEN [ids |-> <<>>, scores |-> <<>>, err |-> "none"]
    ELSE IF id(m) = IdErr
         THEN [ids |-> <<>>, scores |-> <<>>, err |-> "IndexError"]
    ELSE LET r == next(m)
             rest == IF r.err # "none"
                     THEN [ids |-> <<>>, scores |-> <<>>, err |-> r.err]
                     ELSE Iterate(r.m)
         IN  [ids |-> <<id(m)>> \o rest.ids,
              scores |-> <<score(m)>> \o rest.scores,
              err |-> rest.err]

-----------------------------------------------------------------------------
\* method dispatch on the matcher's class
Dispatch(method, m, t) ==
    CASE method = "is_active" ->
            (CASE m.type = "null" -> FALSE
               [] m.type \in {"list", "block"} -> ListMatcher_is_active(m)
               [] m.type \in {"wrap", "exclude", "require", "phrase"} ->
                      is_active(m.child)
               [] m.type = "multi" -> MultiMatcher_is_active(m)
               [] m.type \in {"union", "dismax"} -> UnionMatcher_is_active(m)
               [] m.type = "isect" -> IntersectionMatcher_is_active(m)
               [] m.type = "andnot" -> AndNotMatcher_is_active(m)
               [] m.type = "inverse" -> InverseMatcher_is_active(m)
               [] m.type = "andmaybe" -> is_active(m.a))
      [] method = "id" ->
            (CASE m.type \in {"list", "block"} -> ListMatcher_id(m)
               [] m.type \in {"wrap", "exclude", "require", "phrase"} ->
                      id(m.child)
               [] m.type = "multi" -> MultiMatcher_id(m)
               [] m.type \in {"union", "dismax"} -> UnionMatcher_id(m)
               [] m.type = "isect" -> IntersectionMatcher_id(m)
               [] m.type = "andnot" -> AndNotMatcher_id(m)
               [] m.type = "inverse" -> m.docid
               [] m.type = "andmaybe" -> id(m.a))
      [] method = "next" ->
            (CASE m.type \in {"list", "block"} -> ListMatcher_next(m)
               [] m.type \in {"wrap", "require"} -> WrappingMatcher_next(m)
               [] m.type = "multi" -> MultiMatcher_next(m)
               [] m.type = "exclude" -> ExcludeMatcher_next(m)
               [] m.type \in {"union", "dismax"} -> UnionMatcher_next(m)
               [] m.type = "isect" -> IntersectionMatcher_next(m)
               [] m.type = "andnot" -> AndNotMatcher_next(m)
               [] m.type = "inverse" -> InverseMatcher_next(m)
               [] m.type = "andmaybe" -> AndMaybeMatcher_next(m)
               [] m.type = "phrase" -> PhraseMatcher_next(m))
      [] method = "skip_to" ->
            (CASE m.type \in {"list", "block"} -> Matcher_skip_to(m, t)
               [] m.type \in {"wrap", "require"} ->
                      WrappingMatcher_skip_to(m, t)
               [] m.type = "multi" -> MultiMatcher_skip_to(m, t)
               [] m.type = "exclude" -> ExcludeMatcher_skip_to(m, t)
               [] m.type \in {"union", "dismax"} -> UnionMatcher_skip_to(m, t)
               [] m.type = "isect" -> IntersectionMatcher_skip_to(m, t)
               [] m.type = "andnot" -> AndNotMatcher_skip_to(m, t)
               [] m.type = "inverse" -> InverseMatcher_skip_to(m, t)
               [] m.type = "andmaybe" -> AndMaybeMatcher_skip_to(m, t)
               [] m.type = "phrase" -> PhraseMatcher_skip_to(m, t))
      [] method = "all_ids" ->
            (CASE m.type = "null" -> <<>>
               [] m.type \in {"list", "block"} -> ListMatcher_all_ids(m)
               [] m.type \in {"wrap", "require", "phrase"} ->
                      all_ids(m.child)
               [] m.type = "multi" -> MultiMatcher_all_ids(m)
               [] m.type = "exclude" -> ExcludeMatcher_all_ids(m)
               [] m.type \in {"union", "dismax"} -> UnionMatcher_all_ids(m)
               [] m.type = "isect" -> IntersectionMatcher_all_ids(m)
               [] m.type = "andnot" -> AndNotMatcher_all_ids(m)
               [] m.type = "inverse" -> InverseMatcher_all_ids(m)
               [] m.type = "andmaybe" -> Matcher_all_ids(m))
      [] method = "block_quality" ->
            (CASE m.type = "block" -> BlockMatcher_block_quality(m)
               [] m.type \in {"union", "isect"} ->
                      AdditiveBiMatcher_block_quality(m)
               [] m.type = "require" -> block_quality(m.child.a))
      [] method = "skip_to_quality" ->
            (CASE m.type = "block" -> BlockMatcher_skip_to_quality(m, t)
               [] m.type = "union" -> UnionMatcher_skip_to_quality(m, t)
               [] m.type = "isect" ->
                      IntersectionMatcher_skip_to_quality(m, t)
               [] m.type = "require" -> RequireMatcher_skip_to_quality(m, t))
      [] method = "score" ->
            (CASE m.type \in {"list", "inverse"} -> m.weight
               [] m.type = "block" -> BlockMatcher_score(m)
               [] m.type \in {"wrap", "exclude", "phrase"} ->
                      score(m.child) * m.boost
               [] m.type = "multi" -> score(m.matchers[m.current + 1])
               [] m.type = "union" -> UnionMatcher_score(m)
               [] m.type = "dismax" -> DisjunctionMaxMatcher_score(m)
               [] m.type = "isect" -> score(m.a) + score(m.b)
               [] m.type = "andnot" -> score(m.a)
               [] m.type = "require" -> RequireMatcher_score(m)
               [] m.type = "andmaybe" -> AndMaybeMatcher_score(m))
      [] method = "weight" ->
            (CASE m.type \in {"list", "inverse"} -> m.weight
               [] m.type \in {"wrap", "exclude", "phrase"} ->
                      weight(m.child) * m.boost
               [] m.type = "multi" -> weight(m.matchers[m.current + 1])
               [] m.type \in {"union", "dismax", "isect"} ->
                      weight(m.a) + weight(m.b)
               [] m.type = "andnot" -> weight(m.a)
               [] m.type = "require" -> weight(m.child.a)
               [] m.type = "andmaybe" ->
                      IF id(m.a) = id(m.b) THEN weight(m.a) + weight(m.b)
                      ELSE weight(m.a))
      [] method = "copy" ->
            (CASE m.type = "list" -> ListMatcher_copy(m)
               [] m.type = "wrap" -> WrappingMatcher_copy(m)
               [] m.type = "exclude" -> ExcludeMatcher_copy(m)
               [] m.type \in {"union", "isect", "andnot", "andmaybe"} ->
                      BiMatcher_copy(m)
               [] m.type = "multi" -> MultiMatcher_copy(m)
               [] m.type = "inverse" -> InverseMatcher_copy(m)
               [] m.type = "require" -> RequireMatcher_copy(m))
      [] method = "replace" ->
            (CASE m.type \in {"null", "list"} -> R(m, "none")
               [] m.type \in {"wrap", "exclude", "inverse"} ->
                      WrappingMatcher_replace(m)
               [] m.type = "multi" -> MultiMatcher_replace(m)
               [] m.type \in {"union", "dismax"} -> UnionMatcher_replace(m)
               [] m.type = "isect" -> IntersectionMatcher_replace(m)
               [] m.type = "andnot" -> AndNotMatcher_replace(m)
               [] m.type = "require" -> RequireMatcher_replace(m)
               [] m.type = "andmaybe" -> AndMaybeMatcher_replace(m)
               [] m.type = "phrase" -> PhraseMatcher_replace(m))
      [] method = "construct" -> BuildMatcher(m.kind, m.inp, m.opt)
      [] method = "iterate" -> Iterate(m)

(***************************************************************************)
(* Segment and SegmentSet (whoosh/filedb/fileindex.py)                     *)
(*                                                                         *)
(* A Segment is [name, doccount, deleted]: name is the number n of the     *)
(* segment "_MAIN_<n>", deleted the soft-delete set (None and the empty    *)
(* set behave alike in every method and are both the empty set here).      *)
(* A SegmentSet is the sequence of its segments.                           *)
(***************************************************************************)
Segment(name, doccount) ==
    [name |-> name, doccount |-> doccount, deleted |-> {}]

Segment_doc_count_all(s) == s.doccount

Segment_deleted_count(s) == Cardinality(s.deleted)

Segment_doc_count(s) == s.doccount - Segment_deleted_count(s)

Segment_has_deletions(s) == Segment_deleted_count(s) > 0

Segment_is_deleted(s, docnum) == docnum \in s.deleted

\* a delete_document that takes a repeated call as done
Segment_delete_document_quiet(s, docnum, delete) ==
    IF delete
    THEN [s |-> [s EXCEPT !.deleted = @ \cup {docnum}], err |-> "none"]
    ELSE [s |-> [s EXCEPT !.deleted = @ \ {docnum}], err |-> "none"]

\* Segment.delete_document: [s |-> the segment afterwards, err |-> raised]
Segment_delete_document(s, docnum, delete) ==
    IF delete
    THEN IF docnum \in s.deleted THEN [s |-> s, err |-> "KeyError"]
         ELSE [s |-> [s EXCEPT !.deleted = @ \cup {docnum}], err |-> "none"]
    ELSE IF docnum \notin s.deleted THEN [s |-> s, err |-> "KeyError"]
         \* self.deleted.clear(docnum): set.clear() takes no argument
         ELSE [s |-> s, err |-> "TypeError"]

RECURSIVE SumCounts(_, _)
\* sum(s.doc_count_all() for s in segments[:k])
SumCounts(segments, k) ==
    IF k = 0 THEN 0
    ELSE SumCounts(segments, k - 1) + Segment_doc_count_all(segments[k])

\* SegmentSet.doc_offsets: offsets[k] is the base docnum of segment k
doc_offsets(segments) ==
    [k \in 1..Len(segments) |-> SumCounts(segments, k - 1)]

SegmentSet_doc_count_all(segments) == SumCounts(segments, Len(segments))

RECURSIVE SumDocCount(_, _)
SumDocCount(segments, k) ==
    IF k = 0 THEN 0
    ELSE SumDocCount(segments, k - 1) + Segment_doc_count(segments[k])

SegmentSet_doc_count(segments) == SumDocCount(segments, Len(segments))

\* a _document_segment that bisects to the left of equal offsets
SegmentSet_document_segment_left(segments, docnum) ==
    LET offsets == doc_offsets(segments) IN
    IF Len(offsets) = 1 THEN 0
    ELSE bisect_left(offsets, docnum) - 1

\* SegmentSet._document_segment: a 0-based python index (may be -1)
SegmentSet_document_segment(segments, docnum) ==
    LET offsets == doc_offsets(segments) IN
    IF Len(offsets) = 1 THEN 0
    ELSE bisect_right(offsets, docnum) - 1

\* SegmentSet._segment_and_docnum with python's list indexing: index -1 is
\* the last entry, an index outside the list raises IndexError.
\* Result: [k |-> 1-based position of the segment or 0, docnum |-> local
\* docnum, err |-> raised]
SegmentSet_segment_and_docnum(segments, docnum) ==
    LET segmentnum == SegmentSet_document_segment(segments, docnum)
        n == Len(segments)
        k == IF segmentnum < 0 THEN segmentnum + n + 1 ELSE segmentnum + 1
    IN  IF k < 1 \/ k > n THEN [k |-> 0, docnum |-> 0, err |-> "IndexError"]
        ELSE [k |-> k, docnum |-> docnum - doc_offsets(segments)[k],
              err |-> "none"]

\* SegmentSet.delete_document: [segments |-> afterwards, err |-> raised]
SegmentSet_delete_document(segments, docnum, delete) ==
    LET sd == SegmentSet_segment_and_docnum(segments, docnum) IN
    IF sd.err # "none" THEN [segments |-> segments, err |-> sd.err]
    ELSE LET r == Segment_delete_document(segments[sd.k], sd.docnum, delete)
         IN  [segments |-> [segments EXCEPT ![sd.k] = r.s], err |-> r.err]

\* SegmentSet.is_deleted (TRUE/FALSE, or "IndexError" when it raises)
SegmentSet_is_deleted(segments, docnum) ==
    LET sd == SegmentSet_segment_and_docnum(segments, docnum) IN
    IF sd.err # "none" THEN FALSE
    ELSE Segment_is_deleted(segments[sd.k], sd.docnum)


(***************************************************************************)
(* Storage and file names                                                  *)
(*                                                                         *)
(* A file name is <<kind, number, extension, stamp>>:                      *)
(*   <<"toc", gen, "toc", 0>>      "_MAIN_<gen>.toc"                       *)
(*   <<"tmp", gen, "toc", stamp>>  "_MAIN_<gen>.toc.<time()>"              *)
(*   <<"seg", n, ext, 0>>          "_MAIN_<n>.<ext>"                       *)
(* and, of other indexes kept in the same storage:                         *)
(*   <<"foreign", n, ext, 0>>      "_MAIN_<n>_t_0.<ext>", a file of the    *)
(*                                 index named "MAIN_<n>_t"                *)
(*   <<"other", n, ext, 0>>        "_OTHER_<n>.<ext>", a file of the index *)
(*                                 named "OTHER"                           *)
(* The storage is the function from the names present to their contents.   *)
(***************************************************************************)
\* the files SegmentWriter.__init__ creates for a schema without vectors
CreatedExts == {"trm", "pst", "sto", "fln"}

toc_filename(gen) == <<"toc", gen, "toc", 0>>

\* '%s.%s' % (tocfilename, time())
temp_toc_filename(gen, stamp) == <<"tmp", gen, "toc", stamp>>

segment_filename(n, ext) == <<"seg", n, ext, 0>>

Segment_filenames(n) == {segment_filename(n, e) : e \in CreatedExts}

\* re.compile("^_%s_([0-9]+).toc$"): only proper TOC names match
toc_pattern(name) == name[1] = "toc"

\* re.compile("(_%s_[0-9]+).(%s)" % (indexname, EXTENSIONS.values())): the
\* list is formatted into a character class and the match is not anchored
\* at the end, so "_MAIN_<n>." followed by one of the letters of the
\* extensions matches: every segment file, and every temporary TOC file
\* ("_MAIN_<gen>.toc.<time>", 't' is in the class), and every file of an
\* index named "MAIN_<n>_t" ("_MAIN_<n>" followed by '_' and 't'; match()
\* anchors the start only).  group(1) is the number.
segment_pattern(name) == name[1] \in {"seg", "tmp", "foreign"}

FileContent(complete, gen, counter, segments, docs) ==
    [complete |-> complete, generation |-> gen, segment_counter |-> counter,
     segments |-> segments, docs |-> docs]

TocContent(complete, gen, counter, segments) ==
    FileContent(complete, gen, counter, segments, <<>>)

SegContent(docs) == FileContent(TRUE, 0, 0, <<>>, docs)

\* storage.create_file: creates or truncates
create_file(fs, name, content) ==
    [f \in DOMAIN fs \cup {name} |-> IF f = name THEN content ELSE fs[f]]

remove_file(fs, name) == [f \in DOMAIN fs \ {name} |-> fs[f]]

\* storage.rename_file(old, new)
rename_file(fs, old, new) ==
    [f \in (DOMAIN fs \ {old}) \cup {new} |-> IF f = new THEN fs[old] ELSE fs[f]]

latest_generation(fs) ==
    LET gens == {f[2] : f \in {g \in DOMAIN fs : toc_pattern(g)}} IN
    IF gens = {} THEN -1 ELSE SetMax(gens)

\* _read_toc: [toc |-> content, err |-> raised]
read_toc(fs) ==
    LET gen == latest_generation(fs) IN
    IF gen < 0
    THEN [toc |-> TocContent(FALSE, gen, 0, <<>>), err |-> "EmptyIndexError"]
    ELSE IF ~fs[toc_filename(gen)].complete
         THEN [toc |-> fs[toc_filename(gen)], err |-> "IOError"]
         ELSE [toc |-> fs[toc_filename(gen)], err |-> "none"]

\* the TOC written in place, under its final name
write_toc_target_direct(gen, stamp) == toc_filename(gen)

\* the file _write_toc writes the TOC into before the rename
write_toc_target(gen, stamp) == temp_toc_filename(gen, stamp)

\* todelete without the test against current_segment_names
clean_files_todelete_all(fs, gen, segments) ==
    {f \in DOMAIN fs :
        IF toc_pattern(f) THEN f[2] # gen ELSE segment_pattern(f)}

\* _clean_files: the set todelete
clean_files_todelete(fs, gen, segments) ==
    LET current_segment_names == {segments[k].name : k \in DOMAIN segments}
    IN  {f \in DOMAIN fs :
            IF toc_pattern(f) THEN f[2] # gen
            ELSE IF segment_pattern(f) THEN f[2] \notin current_segment_names
            ELSE FALSE}

(***************************************************************************)
(* SegmentWriter and the merge policies (whoosh/filedb/filewriting.py)     *)
(***************************************************************************)
RECURSIVE fib(_)
\* whoosh.util.fib
fib(n) == IF n = 0 THEN 0 ELSE IF n = 1 THEN 1 ELSE fib(n - 1) + fib(n - 2)

\* SegmentReader(storage, schema, seg): opens the segment's files
SegmentReader_can_open(fs, seg) == Segment_filenames(seg.name) \subseteq DOMAIN fs

\* the stored documents of a segment, read from its files
SegmentReader_docs(fs, seg) == fs[segment_filename(seg.name, "sto")].docs

RECURSIVE KeptDocs(_, _, _)
\* the documents add_reader copies: docnums 0..doccount-1 that are not
\* deleted, in docnum order (docnum is 0-based, next to copy)
KeptDocs(seg, docs, docnum) ==
    IF docnum >= seg.doccount THEN <<>>
    ELSE IF (~Segment_has_deletions(seg)) \/ ~Segment_is_deleted(seg, docnum)
         THEN <<IF docnum + 1 <= Len(docs) THEN docs[docnum + 1] ELSE 0>>
              \o KeptDocs(seg, docs, docnum + 1)
         ELSE KeptDocs(seg, docs, docnum + 1)

\* add_reader that copies the deleted documents as well
add_reader_all(w, seg, fs) ==
    LET docs == SegmentReader_docs(fs, seg) IN
    [w EXCEPT !.docs = @ \o docs, !.docnum = @ + Len(docs), !.added = TRUE,
              !.pool = @ \cup (w.docnum..(w.docnum + Len(docs) - 1))]

\* SegmentWriter.add_reader on a reader of segment seg
add_reader(w, seg, fs) ==
    LET kept == KeptDocs(seg, SegmentReader_docs(fs, seg), 0) IN
    [w EXCEPT !.docs = @ \o kept, !.docnum = @ + Len(kept), !.added = TRUE,
              !.pool = @ \cup (w.docnum..(w.docnum + Len(kept) - 1))]

NO_MERGE(w, segments, fs) == [w |-> w, segments |-> segments, err |-> "none"]

RECURSIVE MERGE_SMALL_loop(_, _, _, _, _, _)
\* the for loop of MERGE_SMALL over sorted_segment_list, i is 0-based
MERGE_SMALL_loop(w, sorted, i, total_docs, newsegments, fs) ==
    IF i >= Len(sorted)
    THEN [w |-> w, segments |-> newsegments, err |-> "none"]
    ELSE LET seg == sorted[i + 1]
             count == Segment_doc_count_all(seg)
         IN  IF count > 0
             THEN IF total_docs + count < fib(i + 5)
                  THEN IF ~SegmentReader_can_open(fs, seg)
                       THEN [w |-> w, segments |-> newsegments,
                             err |-> "IOError"]
                       ELSE MERGE_SMALL_loop(add_reader(w, seg, fs), sorted,
                                i + 1, total_docs + count, newsegments, fs)
                  ELSE MERGE_SMALL_loop(w, sorted, i + 1, total_docs + count,
                                        Append(newsegments, seg), fs)
             ELSE MERGE_SMALL_loop(w, sorted, i + 1, total_docs, newsegments,
                                   fs)

RECURSIVE MERGE_SMALL_before_loop(_, _, _, _, _, _)
\* the loop with the total tested before the segment's count is added
MERGE_SMALL_before_loop(w, sorted, i, total_docs, newsegments, fs) ==
    IF i >= Len(sorted)
    THEN [w |-> w, segments |-> newsegments, err |-> "none"]
    ELSE LET seg == sorted[i + 1]
             count == Segment_doc_count_all(seg)
         IN  IF count > 0
             THEN IF total_docs < fib(i + 5)
                  THEN MERGE_SMALL_before_loop(add_reader(w, seg, fs), sorted,
                           i + 1, total_docs + count, newsegments, fs)
                  ELSE MERGE_SMALL_before_loop(w, sorted, i + 1,
                           total_docs + count, Append(newsegments, seg), fs)
             ELSE MERGE_SMALL_before_loop(w, sorted, i + 1, total_docs,
                                          newsegments, fs)

\* a MERGE_SMALL whose running total does not count the segment tested
MERGE_SMALL_before(w, sorted, fs) ==
    MERGE_SMALL_before_loop(w, sorted, 0, 0, <<>>, fs)

MERGE_SMALL(w, sorted, fs) == MERGE_SMALL_loop(w, sorted, 0, 0, <<>>, fs)

RECURSIVE OPTIMIZE_loop(_, _, _, _)
OPTIMIZE_loop(w, segments, k, fs) ==
    IF k > Len(segments) THEN [w |-> w, segments |-> <<>>, err |-> "none"]
    ELSE IF ~SegmentReader_can_open(fs, segments[k])
         THEN [w |-> w, segments |-> <<>>, err |-> "IOError"]
         ELSE OPTIMIZE_loop(add_reader(w, segments[k], fs), segments, k + 1,
                            fs)

\* an OPTIMIZE that returns the segments as they are
OPTIMIZE_keep(w, segments, fs) == NO_MERGE(w, segments, fs)

OPTIMIZE(w, segments, fs) == OPTIMIZE_loop(w, segments, 1, fs)

\* sorted((s.doc_count_all(), s) for s in segments): ascending counts; the
\* order of segments with equal counts is decided by comparing the Segment
\* objects (arbitrary), so every count-ascending arrangement is possible.
SortedSegmentLists(segments) ==
    LET n == Len(segments)
        perms == {p \in [1..n -> 1..n] : \A x, y \in 1..n : x # y => p[x] # p[y]}
        asc == {p \in perms : \A x, y \in 1..n :
                   x < y => segments[p[x]].doccount <= segments[p[y]].doccount}
    IN  {[k \in 1..n |-> segments[p[k]]] : p \in asc}

MergeTypes == {"NO_MERGE", "MERGE_SMALL", "OPTIMIZE"}


(***************************************************************************)
(* State                                                                   *)
(***************************************************************************)
VARIABLES
    files,      \* the storage: file name -> content
    writelock,  \* holder of "MAIN_WRITELOCK": Free or a writer
    readlock,   \* holder of "MAIN_READLOCK": Free, a writer or -(a reader)
    writers,    \* per writer thread: its SegmentWriter and where commit() is
    readers,    \* per reader thread: its reader() call / open reader
    nsess,      \* number of SegmentWriter objects constructed so far
    nextdoc,    \* identity of the next document handed to add_document
    published,  \* history: the generations published by _write_toc renames
    live,       \* history: documents added and not deleted by the sessions
                \* whose TOC was published
    oor,        \* history: a published session deleted an out-of-range docnum
    dels,       \* history: a published session deleted a document
    ndel,       \* number of delete_document calls made so far
    mkind, minp, mt, mpc, mout, merr, mfloor, mskips, mall,
                \* the matcher under test (see the matcher harness below)
    mopt,       \* the constructor arguments besides the id lists
    mop,        \* the last call made on the matcher under test
    mcp,        \* the matcher that copy() or replace() returned
    mexp,       \* history: what the matcher and its copy were to yield
    mdead,      \* number of calls made on the inactive matcher
    tin,        \* the MultiReader under test: the terms of its readers and
                \* the call made (iter() or iter_from(field, text))
    tgen,       \* the generator _merge_iters returned
    tout        \* the terms the generator yielded so far

ixvars == <<files, writelock, readlock, writers, readers, nsess, nextdoc,
            published, live, oor, dels, ndel>>

mvars == <<mkind, minp, mt, mpc, mout, merr, mfloor, mskips, mall,
           mopt, mop, mcp, mexp, mdead>>

tvars == <<tin, tgen, tout>>

vars == <<files, writelock, readlock, writers, readers, nsess, nextdoc,
          published, live, oor, dels, ndel,
          mkind, minp, mt, mpc, mout, merr, mfloor, mskips, mall,
          mopt, mop, mcp, mexp, mdead, tin, tgen, tout>>

\* the client threads that open writers; in the concurrent specification
\* they open as many SegmentWriter objects as there are of them
Writers == {1, 2}

\* the client threads that open readers
Readers == {1}

Free == 0

\* a thread without a SegmentWriter
IdleWriter ==
    [pc |-> "idle", err |-> "none", segments |-> <<>>, segment_number |-> 0,
     generation |-> 0, stamp |-> 0, docnum |-> 0, added |-> FALSE,
     docs |-> <<>>, pool |-> {}, new_segments |-> <<>>, todelete |-> {},
     gdels |-> {}, gnew |-> {}, goor |-> FALSE]

IdleReader ==
    [pc |-> "idle", err |-> "none", generation |-> -1, segments |-> <<>>,
     open |-> {}]

\* _create_index on an empty storage: _write_toc(..., 0, 0, SegmentSet())
IxInit ==
    /\ files = [f \in {toc_filename(0)} |-> TocContent(TRUE, 0, 0, <<>>)]
    /\ writelock = Free
    /\ readlock = Free
    /\ writers = [w \in Writers |-> IdleWriter]
    /\ readers = [r \in Readers |-> IdleReader]
    /\ nsess = 0
    /\ nextdoc = 1
    /\ published = <<0>>
    /\ live = {}
    /\ oor = FALSE
    /\ dels = FALSE
    /\ ndel = 0

(***************************************************************************)
(* SegmentWriter actions                                                   *)
(***************************************************************************)
\* an acquire() that is granted whoever holds the lock
lock_acquire_any(holder) == TRUE

\* storage.lock(name).acquire(): granted when nobody holds the lock
lock_acquire(holder) == holder = Free

\* a constructor that goes on whatever acquire() returned
SegmentWriter_lock_check_skip(acquired) == TRUE

\* SegmentWriter.__init__: "if not try_for(self.writelock.acquire, ...):
\* raise LockError": TRUE when the constructor goes on
SegmentWriter_lock_check(acquired) == acquired

\* a writer that keeps the generation it read
new_generation_same(info) == info.generation

\* SegmentWriter.__init__: self.generation = info.generation + 1
new_generation(info) == info.generation + 1

\* SegmentWriter.__init__ once the lock is held: the writer record and the
\* storage afterwards
SegmentWriter_init(fs, stamp) ==
    LET info == read_toc(fs).toc
        segment_number == info.segment_counter + 1
        names == Segment_filenames(segment_number)
    IN  [w |-> [IdleWriter EXCEPT !.pc = "open",
                                  !.segments = info.segments,
                                  !.segment_number = segment_number,
                                  !.generation = new_generation(info),
                                  !.stamp = stamp],
         files |-> [f \in DOMAIN fs \cup names |->
                        IF f \in names THEN SegContent(<<>>) ELSE fs[f]]]

\* SegmentWriter.__init__: what a failed try_for(self.writelock.acquire)
\* leads to
SegmentWriter_lock_failed(w) == [w EXCEPT !.err = "LockError"]

\* ix.writer(): SegmentWriter.__init__; the clients open at most `sessions`
\* writers in all
WriterInit(w, sessions) ==
    /\ writers[w].pc = "idle"
    /\ nsess < sessions
    /\ IF ~SegmentWriter_lock_check(lock_acquire(writelock))
       THEN /\ writers' = [writers EXCEPT ![w] = SegmentWriter_lock_failed(@)]
            /\ UNCHANGED <<files, writelock, nsess>>
       ELSE IF read_toc(files).err # "none"
            THEN /\ writelock' = w
                 /\ writers' = [writers EXCEPT ![w].pc = "dead",
                                               ![w].err = read_toc(files).err]
                 /\ UNCHANGED <<files, nsess>>
            ELSE LET r == SegmentWriter_init(files, nsess + 1) IN
                 /\ writelock' = w
                 /\ writers' = [writers EXCEPT ![w] = r.w]
                 /\ files' = r.files
                 /\ nsess' = nsess + 1
    /\ UNCHANGED <<readlock, readers, nextdoc, published, live, oor, dels, ndel>>
    /\ UNCHANGED <<mvars, tvars>>

\* the schema of the index: fields f1 and f2 (Schema.__contains__)
Schema == {"f1", "f2"}

\* name.startswith("_") for the field names that are used
startswith_underscore(name) == name \in {"_stored_f1", "_f3"}

\* the keyword arguments add_document is called with
FieldInputs ==
    {{"f1"}, {"f1", "f2"}, {"f1", "_stored_f1"}, {"f1", "_f3"},
     {"f3"}, {"f1", "f3"}}

\* add_document: the names that are checked against the schema
add_document_fieldnames(fields) ==
    {name \in fields : ~startswith_underscore(name)}

\* an add_document that checks the names after it stored the document
SegmentWriter_add_document_late(w, fields, doc) ==
    [w EXCEPT !.docs = Append(@, doc), !.docnum = @ + 1, !.added = TRUE,
              !.pool = @ \cup {w.docnum},
              !.err = IF add_document_fieldnames(fields) \subseteq Schema
                      THEN "none" ELSE "UnknownFieldError"]

\* SegmentWriter.add_document(**fields) of the document doc: the writer
\* afterwards (all fields are indexed and stored)
SegmentWriter_add_document(w, fields, doc) ==
    IF \E name \in add_document_fieldnames(fields) : name \notin Schema
    THEN [w EXCEPT !.err = "UnknownFieldError"]
    ELSE [w EXCEPT !.docs = Append(@, doc), !.docnum = @ + 1,
                   !.added = TRUE, !.pool = @ \cup {w.docnum},
                   !.err = "none"]

\* writer.add_document(**fields): the document handed over is nextdoc when
\* its fields are those of the schema and -nextdoc (a document that must
\* never be stored) when one of them is unknown
WriterAddDocument(w, fields) ==
    /\ writers[w].pc = "open"
    /\ LET known == add_document_fieldnames(fields) \subseteq Schema
           doc == IF known THEN nextdoc ELSE 0 - nextdoc
       IN  /\ known => nextdoc <= MaxDocs
           /\ \E r \in {SegmentWriter_add_document(writers[w], fields, doc)} :
                writers' = [writers EXCEPT ![w] =
                    IF known THEN [r EXCEPT !.gnew = @ \cup {doc}] ELSE r]
           /\ nextdoc' = IF known THEN nextdoc + 1 ELSE nextdoc
    /\ UNCHANGED <<files, writelock, readlock, readers, nsess, published,
                   live, oor, dels, ndel>>
    /\ UNCHANGED <<mvars, tvars>>

\* SegmentWriter.delete_document(docnum, delete)
SegmentWriter_delete_document(w, docnum, delete) ==
    LET r == SegmentSet_delete_document(w.segments, docnum, delete) IN
    [w EXCEPT !.segments = r.segments, !.err = r.err]

WriterDeleteDocument(w, docnum, delete) ==
    /\ writers[w].pc = "open"
    /\ ndel < MaxDels
    /\ ndel' = ndel + 1
    /\ LET old == writers[w]
           new == SegmentWriter_delete_document(old, docnum, delete)
           inrange == docnum >= 0
                      /\ docnum < SegmentSet_doc_count_all(old.segments)
           sd == SegmentSet_segment_and_docnum(old.segments, docnum)
           doc == SegmentReader_docs(files, old.segments[sd.k])[sd.docnum + 1]
       IN  writers' = [writers EXCEPT ![w] =
              IF new.err # "none" THEN new
              ELSE IF inrange THEN [new EXCEPT !.gdels = @ \cup {doc}]
              ELSE [new EXCEPT !.goor = TRUE]]
    /\ UNCHANGED <<files, writelock, readlock, readers, nsess, nextdoc,
                   published, live, oor, dels>>
    /\ UNCHANGED <<mvars, tvars>>

\* commit(): the merge policy, pool.finish, _getsegment and _close_all
SegmentWriter_merge(w, mergetype, sorted, fs) ==
    LET res == CASE mergetype = "NO_MERGE" -> NO_MERGE(w, w.segments, fs)
                 [] mergetype = "MERGE_SMALL" -> MERGE_SMALL(w, sorted, fs)
                 [] mergetype = "OPTIMIZE" -> OPTIMIZE(w, w.segments, fs)
        w1 == res.w
        names == Segment_filenames(w1.segment_number) \cap DOMAIN fs
    IN  IF res.err # "none"
        THEN [w |-> [w1 EXCEPT !.pc = "dead", !.err = res.err], files |-> fs]
        ELSE IF w1.added
        THEN [w |-> [w1 EXCEPT !.pc = "merged", !.err = "none",
                        !.new_segments =
                            Append(res.segments,
                                   Segment(w1.segment_number, w1.docnum))],
              files |-> [f \in DOMAIN fs |->
                            IF f \in names THEN SegContent(w1.docs)
                            ELSE fs[f]]]
        ELSE [w |-> [w1 EXCEPT !.pc = "merged", !.err = "none",
                               !.new_segments = res.segments],
              files |-> fs]

CommitMerge(w, mergetype) ==
    /\ writers[w].pc = "open"
    /\ \E sorted \in SortedSegmentLists(writers[w].segments) :
          LET r == SegmentWriter_merge(writers[w], mergetype, sorted, files)
          IN  /\ writers' = [writers EXCEPT ![w] = r.w]
              /\ files' = r.files
    /\ UNCHANGED <<writelock, readlock, readers, nsess, nextdoc, published,
                   live, oor, dels, ndel>>
    /\ UNCHANGED <<mvars, tvars>>

\* _write_toc: storage.create_file(tempfilename) and the writes
CommitWriteTocOpen(w) ==
    /\ writers[w].pc = "merged"
    /\ files' = create_file(files,
                    write_toc_target(writers[w].generation, writers[w].stamp),
                    TocContent(FALSE, writers[w].generation,
                               writers[w].segment_number,
                               writers[w].new_segments))
    /\ writers' = [writers EXCEPT ![w].pc = "tocopen"]
    /\ UNCHANGED <<writelock, readlock, readers, nsess, nextdoc, published,
                   live, oor, dels, ndel>>
    /\ UNCHANGED <<mvars, tvars>>

\* _write_toc: the last write and stream.close()
CommitWriteTocClose(w) ==
    /\ writers[w].pc = "tocopen"
    /\ LET t == write_toc_target(writers[w].generation, writers[w].stamp) IN
       files' = IF t \in DOMAIN files
                THEN [files EXCEPT ![t].complete = TRUE] ELSE files
    /\ writers' = [writers EXCEPT ![w].pc = "tocclosed"]
    /\ UNCHANGED <<writelock, readlock, readers, nsess, nextdoc, published,
                   live, oor, dels, ndel>>
    /\ UNCHANGED <<mvars, tvars>>

\* _write_toc: storage.rename_file(tempfilename, tocfilename)
CommitRenameToc(w) ==
    /\ writers[w].pc = "tocclosed"
    /\ LET t == write_toc_target(writers[w].generation, writers[w].stamp) IN
       /\ t \in DOMAIN files
       /\ files' = rename_file(files, t, toc_filename(writers[w].generation))
    /\ writers' = [writers EXCEPT ![w].pc = "renamed"]
    /\ published' = Append(published, writers[w].generation)
    /\ live' = (live \ writers[w].gdels) \cup writers[w].gnew
    /\ oor' = (oor \/ writers[w].goor)
    /\ dels' = (dels \/ writers[w].goor \/ writers[w].gdels # {})
    /\ UNCHANGED <<writelock, readlock, readers, nsess, nextdoc, ndel>>
    /\ UNCHANGED <<mvars, tvars>>

\* commit(): readlock.acquire(True), then _clean_files lists the storage
CommitLockClean(w) ==
    /\ writers[w].pc = "renamed"
    /\ lock_acquire(readlock)
    /\ readlock' = w
    /\ writers' = [writers EXCEPT ![w].pc = "cleaning",
                      ![w].todelete =
                          clean_files_todelete(files, writers[w].generation,
                                               writers[w].new_segments)]
    /\ UNCHANGED <<files, writelock, readers, nsess, nextdoc, published,
                   live, oor, dels, ndel>>
    /\ UNCHANGED <<mvars, tvars>>

\* a reader holds the file open
HeldOpen(f) == \E r \in Readers : f \in readers[r].open

\* storage.delete_file(f): the storages a file held open elsewhere can be
\* deleted on remove it, the others raise OSError ("file busy")
delete_file_outcomes(fs, f, held) ==
    IF f \notin DOMAIN fs THEN {fs}
    ELSE IF held THEN {remove_file(fs, f), fs}
    ELSE {remove_file(fs, f)}

\* _clean_files: one iteration of "for filename in todelete"
CommitDeleteFile(w, f) ==
    /\ writers[w].pc = "cleaning"
    /\ f \in writers[w].todelete
    /\ files' \in delete_file_outcomes(files, f, HeldOpen(f))
    /\ writers' = [writers EXCEPT ![w].todelete = @ \ {f}]
    /\ UNCHANGED <<writelock, readlock, readers, nsess, nextdoc, published,
                   live, oor, dels, ndel>>
    /\ UNCHANGED <<mvars, tvars>>

\* commit(): finally: readlock.release()
CommitUnlockClean(w) ==
    /\ writers[w].pc = "cleaning"
    /\ writers[w].todelete = {}
    /\ readlock' = Free
    /\ writers' = [writers EXCEPT ![w].pc = "cleaned"]
    /\ UNCHANGED <<files, writelock, readers, nsess, nextdoc, published,
                   live, oor, dels, ndel>>
    /\ UNCHANGED <<mvars, tvars>>

\* commit(): self.writelock.release()
CommitRelease(w) ==
    /\ writers[w].pc = "cleaned"
    /\ writelock' = Free
    /\ writers' = [writers EXCEPT ![w] = IdleWriter]
    /\ UNCHANGED <<files, readlock, readers, nsess, nextdoc, published,
                   live, oor, dels, ndel>>
    /\ UNCHANGED <<mvars, tvars>>

\* SegmentWriter.cancel()
WriterCancel(w) ==
    /\ writers[w].pc = "open"
    /\ writelock' = Free
    /\ writers' = [writers EXCEPT ![w] = IdleWriter]
    /\ UNCHANGED <<files, readlock, readers, nsess, nextdoc, published,
                   live, oor, dels, ndel>>
    /\ UNCHANGED <<mvars, tvars>>

\* _write_toc run to its end: the temporary file written, closed and renamed
write_toc(fs, gen, segment_counter, segments, stamp) ==
    LET t == write_toc_target(gen, stamp) IN
    rename_file(create_file(fs, t, TocContent(TRUE, gen, segment_counter,
                                              segments)),
                t, toc_filename(gen))

\* _clean_files run to its end while nobody holds a file open
clean_files(fs, gen, segments) ==
    [f \in DOMAIN fs \ clean_files_todelete(fs, gen, segments) |-> fs[f]]

\* commit() run to its end: the writer and the storage afterwards
SegmentWriter_commit(w, mergetype, sorted, fs) ==
    LET r == SegmentWriter_merge(w, mergetype, sorted, fs) IN
    IF r.w.err # "none" THEN r
    ELSE [w |-> r.w,
          files |-> clean_files(write_toc(r.files, r.w.generation,
                                          r.w.segment_number,
                                          r.w.new_segments, r.w.stamp),
                                r.w.generation, r.w.new_segments)]

\* writer.commit(mergetype) as one step of a client that is alone
Commit(w, mergetype) ==
    /\ writers[w].pc = "open"
    /\ \E sorted \in SortedSegmentLists(writers[w].segments) :
          LET r == SegmentWriter_commit(writers[w], mergetype, sorted, files)
          IN  /\ files' = r.files
              /\ r.w.err = "none"
    /\ writers' = [writers EXCEPT ![w] = IdleWriter]
    /\ writelock' = Free
    /\ published' = Append(published, writers[w].generation)
    /\ live' = (live \ writers[w].gdels) \cup writers[w].gnew
    /\ oor' = (oor \/ writers[w].goor)
    /\ dels' = (dels \/ writers[w].goor \/ writers[w].gdels # {})
    /\ UNCHANGED <<readlock, readers, nsess, nextdoc, ndel>>
    /\ UNCHANGED <<mvars, tvars>>

InCommit(w) ==
    writers[w].pc \in {"merged", "tocopen", "tocclosed", "renamed",
                       "cleaning", "cleaned"}

\* commit() is interrupted (an exception escapes, or its process dies).
\* The finally clause or the operating system releases READLOCK; WRITELOCK
\* stays held when an exception escaped (leak) and is released by the
\* operating system when the process died.
WriterInterrupt(w, leak) ==
    /\ InCommit(w)
    /\ readlock' = IF readlock = w THEN Free ELSE readlock
    /\ IF leak
       THEN /\ writers' = [writers EXCEPT ![w].pc = "dead",
                                          ![w].err = "Interrupted"]
            /\ UNCHANGED writelock
       ELSE /\ writers' = [writers EXCEPT ![w] = IdleWriter]
            /\ writelock' = Free
    /\ UNCHANGED <<files, readers, nsess, nextdoc, published, live, oor, dels, ndel>>
    /\ UNCHANGED <<mvars, tvars>>

(***************************************************************************)
(* FileIndex.reader()                                                      *)
(***************************************************************************)
RECURSIVE SegmentSetFiles(_)
SegmentSetFiles(segments) ==
    IF segments = <<>> THEN {}
    ELSE Segment_filenames(Head(segments).name)
         \cup SegmentSetFiles(Tail(segments))

\* reader(): lock.acquire(True)
ReaderLock(r) ==
    /\ readers[r].pc = "idle"
    /\ lock_acquire(readlock)
    /\ readlock' = -r
    /\ readers' = [readers EXCEPT ![r] = [IdleReader EXCEPT !.pc = "locked"]]
    /\ UNCHANGED <<files, writelock, writers, nsess, nextdoc, published,
                   live, oor, dels, ndel>>
    /\ UNCHANGED <<mvars, tvars>>

\* reader(): info = self._read_toc(); an exception runs the finally clause
ReaderReadToc(r) ==
    /\ readers[r].pc = "locked"
    /\ LET info == read_toc(files) IN
       IF info.err # "none"
       THEN /\ readers' = [readers EXCEPT ![r].pc = "idle",
                                          ![r].err = info.err]
            /\ readlock' = Free
       ELSE /\ readers' = [readers EXCEPT ![r].pc = "toc",
                                   ![r].generation = info.toc.generation,
                                   ![r].segments = info.toc.segments]
            /\ UNCHANGED readlock
    /\ UNCHANGED <<files, writelock, writers, nsess, nextdoc, published,
                   live, oor, dels, ndel>>
    /\ UNCHANGED <<mvars, tvars>>

\* reader(): info.segments.reader(...) opens the files of every segment
ReaderOpenSegments(r) ==
    /\ readers[r].pc = "toc"
    /\ LET names == SegmentSetFiles(readers[r].segments) IN
       IF names \subseteq DOMAIN files
       THEN /\ readers' = [readers EXCEPT ![r].pc = "opened",
                                          ![r].open = names]
            /\ UNCHANGED readlock
       ELSE /\ readers' = [readers EXCEPT ![r].pc = "idle",
                                          ![r].err = "IOError"]
            /\ readlock' = Free
    /\ UNCHANGED <<files, writelock, writers, nsess, nextdoc, published,
                   live, oor, dels, ndel>>
    /\ UNCHANGED <<mvars, tvars>>

\* a reader() that returns without releasing READLOCK
ReaderUnlock_keep(r) ==
    /\ readers[r].pc = "opened"
    /\ readers' = [readers EXCEPT ![r].pc = "open"]
    /\ UNCHANGED <<files, writelock, readlock, writers, nsess, nextdoc,
                   published, live, oor, dels, ndel>>
    /\ UNCHANGED <<mvars, tvars>>

\* reader(): finally: lock.release(); the reader is returned
ReaderUnlock(r) ==
    /\ readers[r].pc = "opened"
    /\ readlock' = Free
    /\ readers' = [readers EXCEPT ![r].pc = "open"]
    /\ UNCHANGED <<files, writelock, writers, nsess, nextdoc, published,
                   live, oor, dels, ndel>>
    /\ UNCHANGED <<mvars, tvars>>

\* a reader that answers from the TOC now in the storage
reader_segments_current(rd, fs) == read_toc(fs).toc.segments

\* the Segment objects an open reader answers from: the ones its own
\* _read_toc call unpickled (rd is the reader, fs the storage)
reader_segments(rd, fs) == rd.segments

\* MultiReader._document_segment: max(0, bisect_right(doc_offsets, d) - 1)
MultiReader_document_segment(segments, docnum) ==
    LET k == bisect_right(doc_offsets(segments), docnum) - 1 IN
    IF k > 0 THEN k ELSE 0

\* MultiReader._segment_and_docnum over readers of these segments (the
\* offsets are the running sums of the readers' doc_count_all())
MultiReader_segment_and_docnum(segments, docnum) ==
    LET segmentnum == MultiReader_document_segment(segments, docnum)
        offsets == doc_offsets(segments)
    IN  IF segmentnum + 1 > Len(offsets)
        THEN [segmentnum |-> segmentnum, docnum |-> 0, err |-> "IndexError"]
        ELSE [segmentnum |-> segmentnum,
              docnum |-> docnum - offsets[segmentnum + 1], err |-> "none"]

\* reader.is_deleted(docnum) for 0 <= docnum < doc_count_all()
reader_is_deleted(segments, docnum) ==
    IF Len(segments) = 1 THEN Segment_is_deleted(segments[1], docnum)
    ELSE LET k == MultiReader_document_segment(segments, docnum) + 1 IN
         Segment_is_deleted(segments[k],
                            docnum - doc_offsets(segments)[k])

\* what a reader reports: doc_count_all(), doc_count(), is_deleted(d)
reader_view(rd, fs) ==
    LET segments == reader_segments(rd, fs) IN
    [doc_count_all |-> SegmentSet_doc_count_all(segments),
     doc_count |-> SegmentSet_doc_count(segments),
     is_deleted |-> [d \in 0..(SegmentSet_doc_count_all(segments) - 1) |->
                        reader_is_deleted(segments, d)]]

\* IndexReader.close()
ReaderClose(r) ==
    /\ readers[r].pc = "open"
    /\ readers' = [readers EXCEPT ![r] = IdleReader]
    /\ UNCHANGED <<files, writelock, readlock, writers, nsess, nextdoc,
                   published, live, oor, dels, ndel>>
    /\ UNCHANGED <<mvars, tvars>>

\* FileIndex.doc_count_all(), doc_count(), field_length() and is_empty()
\* call _read_toc without a lock.  _read_toc: gen =
\* _latest_generation(storage, indexname)
IndexLatestGeneration(r) ==
    /\ readers[r].pc = "idle"
    /\ readers' = [readers EXCEPT ![r] =
                      [IdleReader EXCEPT !.pc = "found",
                                         !.generation =
                                             latest_generation(files)]]
    /\ UNCHANGED <<files, writelock, readlock, writers, nsess, nextdoc,
                   published, live, oor, dels, ndel>>
    /\ UNCHANGED <<mvars, tvars>>

\* _read_toc: storage.open_file(tocfilename) of the generation found, and
\* the reads from the open file; the call returns its count
IndexOpenToc(r) ==
    /\ readers[r].pc = "found"
    /\ readers' = [readers EXCEPT ![r].pc = "idle",
                      ![r].err =
                          IF readers[r].generation < 0
                          THEN "EmptyIndexError"
                          ELSE IF toc_filename(readers[r].generation)
                                      \in DOMAIN files
                               THEN "none" ELSE "IOError",
                      ![r].segments =
                          IF toc_filename(readers[r].generation)
                                 \in DOMAIN files
                          THEN files[toc_filename(readers[r].generation)]
                                   .segments
                          ELSE <<>>]
    /\ UNCHANGED <<files, writelock, readlock, writers, nsess, nextdoc,
                   published, live, oor, dels, ndel>>
    /\ UNCHANGED <<mvars, tvars>>

\* the docnums handed to delete_document: every docnum of the index, one
\* below and one above the range
DocnumInputs(w) == -1..SegmentSet_doc_count_all(writers[w].segments)

IxNext ==
    \/ \E w \in Writers : WriterInit(w, Cardinality(Writers))
    \/ \E w \in Writers : WriterAddDocument(w, Schema)
    \/ \E w \in Writers :
          \E docnum \in DocnumInputs(w) : WriterDeleteDocument(w, docnum, TRUE)
    \/ \E w \in Writers : \E mergetype \in MergeTypes : CommitMerge(w, mergetype)
    \/ \E w \in Writers : CommitWriteTocOpen(w)
    \/ \E w \in Writers : CommitWriteTocClose(w)
    \/ \E w \in Writers : CommitRenameToc(w)
    \/ \E w \in Writers : CommitLockClean(w)
    \/ \E w \in Writers : \E f \in writers[w].todelete : CommitDeleteFile(w, f)
    \/ \E w \in Writers : CommitUnlockClean(w)
    \/ \E w \in Writers : CommitRelease(w)
    \/ \E w \in Writers : WriterCancel(w)
    \/ \E w \in Writers : \E leak \in BOOLEAN : WriterInterrupt(w, leak)
    \/ \E r \in Readers : ReaderLock(r)
    \/ \E r \in Readers : ReaderReadToc(r)
    \/ \E r \in Readers : ReaderOpenSegments(r)
    \/ \E r \in Readers : ReaderUnlock(r)
    \/ \E r \in Readers : ReaderClose(r)

(***************************************************************************)
(* Matcher harness: a matcher is built from leaf lists and driven the way  *)
(* the callers drive it (is_active()/id()/next(), skip_to)                 *)
(***************************************************************************)
\* strictly ascending id lists
AscLists ==
    {SortedSeq(S) : S \in {T \in SUBSET (0..MaxId) : Cardinality(T) <= MaxLen}}

MKinds == {"union", "union3", "isect", "andnot", "exclude"}

\* the defaults of the constructors: weight=1.0, boost=1.0, tiebreak=0.0,
\* missing=None (limit has none; it is read by InverseMatcher alone)
DefaultOpt ==
    [limit |-> 0, missing |-> {}, wa |-> 1, wb |-> 1, wc |-> 1,
     boost |-> 1, tiebreak |-> 0]

NoOp == [op |-> "none", t |-> 0]

NoRemaining == [ids |-> <<>>, err |-> "none"]

\* no generator: no MultiReader is iterated
NoGenerator == [pc |-> "none", current |-> {}, iters |-> <<>>, active |-> 0]

\* no MultiReader under test
TIdle ==
    /\ tin = [readers |-> <<>>, all |-> TRUE, fnum |-> 0, text |-> 0]
    /\ tgen = NoGenerator
    /\ tout = <<>>

\* no matcher under test
MNone ==
    /\ mkind = "none"
    /\ minp = [a |-> <<>>, b |-> <<>>, c |-> <<>>]
    /\ mopt = DefaultOpt
    /\ mt = NullMatcher
    /\ mpc = "idle"
    /\ mout = <<>>
    /\ merr = "none"
    /\ mfloor = 0
    /\ mskips = 0
    /\ mall = <<>>
    /\ mop = NoOp
    /\ mcp = NullMatcher
    /\ mexp = [orig |-> NoRemaining, copy |-> NoRemaining]
    /\ mdead = 0

\* neither a matcher nor a MultiReader under test
MIdle == MNone /\ TIdle

\* a matcher under test that is not built yet
MFresh ==
    /\ TIdle
    /\ mt = NullMatcher
    /\ mpc = "new"
    /\ mout = <<>>
    /\ merr = "none"
    /\ mfloor = 0
    /\ mskips = 0
    /\ mall = <<>>
    /\ mop = NoOp
    /\ mcp = NullMatcher
    /\ mexp = [orig |-> NoRemaining, copy |-> NoRemaining]
    /\ mdead = 0

MInit ==
    /\ mkind \in MKinds
    /\ minp \in [a : AscLists, b : AscLists, c : AscLists]
    /\ (mkind # "union3" => minp.c = <<>>)
    /\ mopt = DefaultOpt
    /\ MFresh

\* the constructor call; all_ids() is taken from the fresh matcher
MConstruct ==
    /\ mpc = "new"
    /\ \E r \in {construct(mkind, minp, mopt)} :
       /\ mt' = r.m
       /\ merr' = r.err
       /\ mpc' = IF r.err = "none" THEN "run" ELSE "raised"
       /\ mall' = all_ids(r.m)
    /\ mop' = [op |-> "construct", t |-> 0]
    /\ UNCHANGED <<mkind, minp, mopt, mout, mfloor, mskips, mcp, mexp, mdead>>
    /\ UNCHANGED <<ixvars, tvars>>

\* one round of "while m.is_active(): ls.append(m.id()); m.next()"
MNext ==
    /\ mpc = "run"
    /\ is_active(mt)
    /\ \E cur \in {id(mt)}, r \in {next(mt)} :
           IF cur = IdErr
           THEN /\ merr' = "IndexError"
                /\ mpc' = "raised"
                /\ UNCHANGED <<mt, mout, mfloor>>
           ELSE /\ mout' = Append(mout, cur)
                /\ mfloor' = cur + 1
                /\ mt' = r.m
                /\ merr' = r.err
                /\ mpc' = IF r.err = "none" THEN "run" ELSE "raised"
    /\ mop' = [op |-> "next", t |-> 0]
    /\ UNCHANGED <<mkind, minp, mopt, mskips, mall, mcp, mexp, mdead>>
    /\ UNCHANGED <<ixvars, tvars>>

\* m.skip_to(t) on an active matcher
MSkipTo(t) ==
    /\ mpc = "run"
    /\ is_active(mt)
    /\ \E r \in {skip_to(mt, t)} :
       /\ mt' = r.m
       /\ merr' = r.err
       /\ mpc' = IF r.err = "none" THEN "run" ELSE "raised"
    /\ mfloor' = IF t > mfloor THEN t ELSE mfloor
    /\ mskips' = 1
    /\ mop' = [op |-> "skip_to", t |-> t]
    /\ UNCHANGED <<mkind, minp, mopt, mout, mall, mcp, mexp, mdead>>
    /\ UNCHANGED <<ixvars, tvars>>

MNextStep ==
    \/ MConstruct
    \/ MNext
    \/ \E t \in 0..(MaxId + 1) : MSkipTo(t)

-----------------------------------------------------------------------------
\* The whole algebra: every class, calls on an exhausted matcher and
\* replace()
AKinds ==
    {"list", "wrap", "exclude", "exclude_union", "multi", "union", "dismax",
     "isect", "andnot", "inverse", "require", "andmaybe"}

Boosts == {1, 2}

\* the constructor arguments drawn from the given sets
Inputs(As, Bs, Cs, Os) ==
    {[inp |-> [a |-> a, b |-> b, c |-> c], opt |-> o] :
        a \in As, b \in Bs, c \in Cs, o \in Os}

AInputs(kind) ==
    CASE kind = "list" -> Inputs(AscLists, {<<>>}, {<<>>}, {DefaultOpt})
      [] kind = "wrap" ->
            Inputs(AscLists, AscLists, {<<>>},
                   {[DefaultOpt EXCEPT !.boost = bo] : bo \in Boosts})
      [] kind = "inverse" ->
            Inputs(AscLists, {<<>>}, {<<>>},
                   {[DefaultOpt EXCEPT !.limit = n, !.missing = ms] :
                       n \in 0..(MaxId + 1), ms \in SUBSET (0..MaxId)})
      [] kind = "exclude_union" ->
            Inputs(AscLists, AscLists, {<<>>, <<1>>}, {DefaultOpt})
      [] OTHER -> Inputs(AscLists, AscLists, {<<>>}, {DefaultOpt})

AInit ==
    /\ mkind \in AKinds
    /\ \E x \in AInputs(mkind) : minp = x.inp /\ mopt = x.opt
    /\ MFresh

\* the ids skip_to is called with (a MultiMatcher spans two id ranges)
SkipTargets(kind) ==
    IF kind = "multi" THEN 0..(2 * MaxId + 2) ELSE 0..(MaxId + 1)

Remaining(m) == [ids |-> iterate(m).ids, err |-> iterate(m).err]

\* m.next() on the exhausted matcher
MDeadNext ==
    /\ mpc = "run"
    /\ ~is_active(mt)
    /\ mdead < MaxDead
    /\ \E r \in {next(mt)} :
       /\ mt' = r.m
       /\ merr' = r.err
    /\ mop' = [op |-> "dead_next", t |-> 0]
    /\ mdead' = mdead + 1
    /\ UNCHANGED <<mkind, minp, mopt, mpc, mout, mfloor, mskips, mall, mcp,
                   mexp>>
    /\ UNCHANGED <<ixvars, tvars>>

\* m.skip_to(t) on the exhausted matcher
MDeadSkipTo(t) ==
    /\ mpc = "run"
    /\ ~is_active(mt)
    /\ mdead < MaxDead
    /\ \E r \in {skip_to(mt, t)} :
       /\ mt' = r.m
       /\ merr' = r.err
    /\ mop' = [op |-> "dead_skip_to", t |-> 0]
    /\ mdead' = mdead + 1
    /\ UNCHANGED <<mkind, minp, mopt, mpc, mout, mfloor, mskips, mall, mcp,
                   mexp>>
    /\ UNCHANGED <<ixvars, tvars>>

\* m.replace(); the harness keeps m and what replace() returned
MReplace ==
    /\ mpc = "run"
    /\ \E r \in {replace(mt)} :
       /\ mcp' = r.m
       /\ merr' = r.err
    /\ mpc' = "replaced"
    /\ mop' = [op |-> "replace", t |-> 0]
    /\ UNCHANGED <<mkind, minp, mopt, mt, mout, mfloor, mskips, mall, mexp,
                   mdead>>
    /\ UNCHANGED <<ixvars, tvars>>

ANextStep ==
    \/ MConstruct
    \/ MNext
    \/ \E t \in SkipTargets(mkind) : MSkipTo(t)
    \/ MDeadNext
    \/ \E t \in SkipTargets(mkind) : MDeadSkipTo(t)
    \/ MReplace

-----------------------------------------------------------------------------
\* Scores: the classes whose score() combines the children's scores, over
\* leaves of different weights
SKinds == {"union", "union3", "dismax", "require", "andmaybe"}

WeightOpts ==
    {[DefaultOpt EXCEPT !.wa = 1, !.wb = 2, !.wc = 4],
     [DefaultOpt EXCEPT !.wa = 2, !.wb = 1, !.wc = 4]}

Tiebreaks == {0, 1}

SInputs(kind) ==
    CASE kind = "union3" -> Inputs(AscLists, AscLists, AscLists, WeightOpts)
      [] kind = "dismax" ->
            Inputs(AscLists, AscLists, {<<>>},
                   {[o EXCEPT !.tiebreak = tb] :
                       o \in WeightOpts, tb \in Tiebreaks})
      [] OTHER -> Inputs(AscLists, AscLists, {<<>>}, WeightOpts)

SInit ==
    /\ mkind \in SKinds
    /\ \E x \in SInputs(mkind) : minp = x.inp /\ mopt = x.opt
    /\ MFresh

-----------------------------------------------------------------------------
\* Quality: the classes with skip_to_quality, over block-structured posting
\* readers
MaxWeight == 2

MaxBlock == 2

MaxQuality == 4

QKinds == {"qunion", "qisect", "qrequire"}

\* the weights of the postings of a list
WeightLists(ids) == [DOMAIN ids -> 1..MaxWeight]

QInit ==
    /\ mkind \in QKinds
    /\ \E a \in AscLists, b \in AscLists :
       \E awts \in WeightLists(a), bwts \in WeightLists(b) :
       \E asize \in 1..MaxBlock, bsize \in 1..MaxBlock :
           minp = [a |-> a, b |-> b, c |-> <<>>, awts |-> awts,
                   bwts |-> bwts, asize |-> asize, bsize |-> bsize]
    /\ mopt = DefaultOpt
    /\ MFresh

\* m.skip_to_quality(minquality) on the active matcher
MSkipToQuality(minquality) ==
    /\ mpc = "run"
    /\ is_active(mt)
    /\ \E r \in {skip_to_quality(mt, minquality)} :
       /\ mt' = r.m
       /\ merr' = r.err
       /\ mpc' = IF r.err = "none" THEN "run" ELSE "raised"
    /\ mop' = [op |-> "skip_to_quality", t |-> minquality]
    /\ UNCHANGED <<mkind, minp, mopt, mout, mfloor, mskips, mall, mcp, mexp,
                   mdead>>
    /\ UNCHANGED <<ixvars, tvars>>

QNextStep ==
    \/ MConstruct
    \/ MNext
    \/ \E t \in 0..(MaxId + 1) : MSkipTo(t)
    \/ \E minquality \in 0..MaxQuality : MSkipToQuality(minquality)

-----------------------------------------------------------------------------
\* Phrases: a PhraseMatcher over the posting readers of its words
Slops == {1, 2}

\* the ascending position lists of a word in one document; the empty list
\* stands for a document without the word
PosLists ==
    {SortedSeq(S) :
        S \in {T \in SUBSET (0..MaxPos) : Cardinality(T) <= MaxLen}}

OnePos == {<<>>} \cup {<<p>> : p \in 0..MaxPos}

\* the postings of a word whose positions in document d are f[d]
WordPosting(f) ==
    LET ids == SortedSeq({d \in DOMAIN f : f[d] # <<>>}) IN
    [ids |-> ids, poses |-> [j \in 1..Len(ids) |-> f[ids[j]]]]

\* a phrase of up to MaxWords words over one document, or a phrase of two
\* words with at most one position each over several documents
PInit ==
    /\ mkind = "phrase"
    /\ \/ \E k \in 1..MaxWords : \E fs \in [1..k -> [{0} -> PosLists]] :
             minp = [words |-> [w \in 1..k |-> WordPosting(fs[w])]]
       \/ \E f1 \in [0..MaxPDoc -> OnePos], f2 \in [0..MaxPDoc -> OnePos] :
             minp = [words |-> <<WordPosting(f1), WordPosting(f2)>>]
    /\ \E sl \in Slops : mopt = [slop |-> sl, boost |-> 1]
    /\ MFresh

-----------------------------------------------------------------------------
\* copy(): the matcher and its copy are driven side by side
CKinds ==
    {"list", "wrap", "exclude", "union", "isect", "andnot", "require",
     "andmaybe"}

CInit ==
    /\ mkind \in CKinds
    /\ \E x \in Inputs(AscLists, AscLists, {<<>>}, {DefaultOpt}) :
          /\ minp = x.inp
          /\ mopt = x.opt
          /\ (mkind = "list" => x.inp.b = <<>>)
    /\ MFresh

\* What a call on one matcher does to another one: a ListMatcher object
\* that both hold (same obj at the same place) is one cursor, so the other
\* sees it where the call left it.
RECURSIVE Alias(_, _)
Alias(m, src) ==
    IF m.type # src.type THEN m
    ELSE CASE m.type = "list" -> IF m.obj = src.obj THEN src ELSE m
           [] m.type \in {"wrap", "exclude", "require"} ->
                  [m EXCEPT !.child = Alias(m.child, src.child)]
           [] m.type \in {"union", "isect", "andnot", "andmaybe"} ->
                  [m EXCEPT !.a = Alias(m.a, src.a), !.b = Alias(m.b, src.b)]
           [] OTHER -> m

\* cp = m.copy()
MCopy ==
    /\ mpc = "run"
    /\ \E r \in {copy(mt)} :
       /\ mcp' = r.m
       /\ mt' = Alias(mt, r.m)
       /\ merr' = r.err
       /\ mpc' = IF r.err = "none" THEN "copied" ELSE "raised"
    /\ mexp' = [orig |-> Remaining(mt), copy |-> Remaining(mt)]
    /\ mop' = [op |-> "copy", t |-> 0]
    /\ UNCHANGED <<mkind, minp, mopt, mout, mfloor, mskips, mall, mdead>>
    /\ UNCHANGED <<ixvars, tvars>>

\* next() on the matcher (which = "orig"), before or after it was copied,
\* or on its copy (which = "copy")
MPairNext(which) ==
    /\ mpc = "copied" \/ (mpc = "run" /\ which = "orig")
    /\ \E target \in {IF which = "orig" THEN mt ELSE mcp},
          other \in {IF which = "orig" THEN mcp ELSE mt} :
        \E r \in {next(target)} :
           /\ is_active(target)
           /\ mt' = IF which = "orig" THEN r.m ELSE Alias(other, r.m)
           /\ mcp' = IF which = "orig" THEN Alias(other, r.m) ELSE r.m
           /\ merr' = r.err
           /\ mpc' = IF r.err = "none" THEN mpc ELSE "raised"
           /\ mexp' = [mexp EXCEPT ![which] = Remaining(r.m)]
    /\ mop' = [op |-> IF which = "orig" THEN "next_orig" ELSE "next_copy",
               t |-> 0]
    /\ UNCHANGED <<mkind, minp, mopt, mout, mfloor, mskips, mall, mdead>>
    /\ UNCHANGED <<ixvars, tvars>>

\* skip_to(t) on the matcher or on its copy
MPairSkipTo(which, t) ==
    /\ mpc = "copied" \/ (mpc = "run" /\ which = "orig")
    /\ \E target \in {IF which = "orig" THEN mt ELSE mcp},
          other \in {IF which = "orig" THEN mcp ELSE mt} :
        \E r \in {skip_to(target, t)} :
           /\ is_active(target)
           /\ mt' = IF which = "orig" THEN r.m ELSE Alias(other, r.m)
           /\ mcp' = IF which = "orig" THEN Alias(other, r.m) ELSE r.m
           /\ merr' = r.err
           /\ mpc' = IF r.err = "none" THEN mpc ELSE "raised"
           /\ mexp' = [mexp EXCEPT ![which] = Remaining(r.m)]
    /\ mop' = [op |-> IF which = "orig" THEN "skip_to_orig"
                      ELSE "skip_to_copy",
               t |-> 0]
    /\ UNCHANGED <<mkind, minp, mopt, mout, mfloor, mskips, mall, mdead>>
    /\ UNCHANGED <<ixvars, tvars>>

CNextStep ==
    \/ MConstruct
    \/ MCopy
    \/ \E which \in {"orig", "copy"} : MPairNext(which)
    \/ \E which \in {"orig", "copy"} :
          \E t \in 0..(MaxId + 1) : MPairSkipTo(which, t)

(***************************************************************************)
(* MultiReader term iteration (whoosh/reading.py)                          *)
(*                                                                         *)
(* A term is [fnum, text, docfreq, termcount]; a reader's terms are a list *)
(* in strictly increasing (fnum, text) order.  The generator _merge_iters  *)
(* returns is [pc, current, iters, active]: current is the heap (a set of  *)
(* entries [fnum, text, docfreq, termcount, it], it the position of the    *)
(* iterator in iterlist), iters what each iterator has left to yield.      *)
(***************************************************************************)
\* (fnum, text) of a comes before (fnum, text) of b
TermLess(a, b) == a.fnum < b.fnum \/ (a.fnum = b.fnum /\ a.text < b.text)

\* the order of the heap: tuples (fnum, text, docfreq, termcount, it)
EntryLE(a, b) ==
    \/ TermLess(a, b)
    \/ /\ a.fnum = b.fnum /\ a.text = b.text
       /\ \/ a.docfreq < b.docfreq
          \/ a.docfreq = b.docfreq /\ a.termcount < b.termcount
          \/ a.docfreq = b.docfreq /\ a.termcount = b.termcount /\ a.it <= b.it

\* current[0] of a heap
HeapTop(current) == CHOOSE e \in current : \A f \in current : EntryLE(e, f)

\* the tuple (fn, t, df, tc, it) for the term an iterator yielded
HeapEntry(term, it) ==
    [fnum |-> term.fnum, text |-> term.text, docfreq |-> term.docfreq,
     termcount |-> term.termcount, it |-> it]

\* IndexReader.__iter__ and iter_from(fieldname, text) of a segment's
\* reader: all its terms, or those from (fnum, text) on
SegmentReader_iter_from(terms, from) ==
    IF from.all THEN terms
    ELSE SelectSeq(terms, LAMBDA t : ~TermLess(t, from))

\* MultiReader.__iter__ / iter_from: _merge_iters(iterlist) is called and
\* returns a generator that has not run yet
MultiReader_iter_from(rs, from) ==
    [pc |-> "new", current |-> {},
     iters |-> [r \in DOMAIN rs |-> SegmentReader_iter_from(rs[r], from)],
     active |-> 0]

\* _merge_iters: "for it in iterlist: ... it.next()" and heapify; it.next()
\* of an iterator that has nothing to yield raises StopIteration, which
\* ends the generator
merge_iters_fill(g) ==
    IF \E r \in DOMAIN g.iters : g.iters[r] = <<>>
    THEN [g EXCEPT !.pc = "done"]
    ELSE [g EXCEPT !.pc = "running",
                   !.current = {HeapEntry(Head(g.iters[r]), r) :
                                   r \in DOMAIN g.iters},
                   !.iters = [r \in DOMAIN g.iters |-> Tail(g.iters[r])],
                   !.active = Len(g.iters)]

RECURSIVE merge_iters_sum(_, _, _, _, _)
\* _merge_iters: the inner while loop that adds up the entries for
\* (fnum, text) and advances their iterators
merge_iters_sum(g, fnum, text, docfreq, termcount) ==
    IF g.current # {} /\ HeapTop(g.current).fnum = fnum
                      /\ HeapTop(g.current).text = text
    THEN LET top == HeapTop(g.current)
             it == top.it
             g1 == IF g.iters[it] # <<>>
                   THEN [g EXCEPT  \* heapreplace
                            !.current = (@ \ {top})
                                \cup {HeapEntry(Head(g.iters[it]), it)},
                            !.iters[it] = Tail(@)]
                   ELSE [g EXCEPT  \* StopIteration: heappop
                            !.current = @ \ {top},
                            !.active = @ - 1]
         IN  merge_iters_sum(g1, fnum, text, docfreq + top.docfreq,
                             termcount + top.termcount)
    ELSE [g |-> g, docfreq |-> docfreq, termcount |-> termcount]

\* _merge_iters: one turn of "while active > 0", up to the yield:
\* [g |-> the generator, yielded |-> a sequence of no or one term]
merge_iters_loop(g) ==
    IF g.active > 0
    THEN LET top == HeapTop(g.current)
             r == merge_iters_sum(g, top.fnum, top.text, 0, 0)
         IN  [g |-> r.g,
              yielded |-> <<[fnum |-> top.fnum, text |-> top.text,
                             docfreq |-> r.docfreq,
                             termcount |-> r.termcount]>>]
    ELSE [g |-> [g EXCEPT !.pc = "done"], yielded |-> <<>>]

\* next() of the generator: it runs to its next yield or to its end
merge_iters_next(g) ==
    IF g.pc = "new"
    THEN LET g1 == merge_iters_fill(g) IN
         IF g1.pc = "done" THEN [g |-> g1, yielded |-> <<>>]
         ELSE merge_iters_loop(g1)
    ELSE merge_iters_loop(g)

\* reader.__iter__() or reader.iter_from(fieldname, text) is called
TIter ==
    /\ tgen.pc = "none"
    /\ tgen' = MultiReader_iter_from(tin.readers, tin)
    /\ UNCHANGED <<tin, tout>>
    /\ UNCHANGED <<ixvars, mvars>>

\* the caller's loop takes the next term
TNextTerm ==
    /\ tgen.pc \in {"new", "running"}
    /\ \E r \in {merge_iters_next(tgen)} :
          /\ tgen' = r.g
          /\ tout' = tout \o r.yielded
    /\ UNCHANGED tin
    /\ UNCHANGED <<ixvars, mvars>>

TNextStep == TIter \/ TNextTerm

\* the terms of the index: field 0 has the terms 0..MaxText, field 1 the
\* term 0
TermKeys == {<<0, t>> : t \in 0..MaxText} \cup {<<1, 0>>}

RECURSIVE TermList(_, _)
\* the terms of reader r for the keys K in increasing order; the reader has
\* r documents with the term and 2 * r + text occurrences of it
TermList(K, r) ==
    IF K = {} THEN <<>>
    ELSE LET k == CHOOSE x \in K : \A y \in K :
                      x[1] < y[1] \/ (x[1] = y[1] /\ x[2] <= y[2])
         IN  <<[fnum |-> k[1], text |-> k[2], docfreq |-> r,
                termcount |-> 2 * r + k[2]]>> \o TermList(K \ {k}, r)

\* a MultiReader over two or three segments (a one-segment index is read
\* by a SegmentReader), each with any of the terms, also with none
TInit ==
    /\ \E n \in 2..3 : \E Ks \in [1..n -> SUBSET TermKeys] :
       \E all \in BOOLEAN : \E k \in TermKeys :
          /\ all => k = <<0, 0>>
          /\ tin = [readers |-> [r \in 1..n |-> TermList(Ks[r], r)],
                    all |-> all, fnum |-> k[1], text |-> k[2]]
    /\ tgen = NoGenerator
    /\ tout = <<>>

(***************************************************************************)
(* Specifications                                                          *)
(***************************************************************************)
Init == IxInit /\ MIdle

Next == IxNext

\* the index: writers, readers and the storage
Spec == Init /\ [][Next]_vars

InitMatcher == IxInit /\ MInit

\* The sequential specification: one client, whole sessions, no crash.  It
\* starts from an index at generation 1 holding one segment of k documents
\* (documents 101..100+k, written by k add_document calls and a commit).
InitSeq ==
    /\ \E k \in 0..MaxSeg :
          /\ files = [f \in {toc_filename(1)} \cup Segment_filenames(1) |->
                        IF f = toc_filename(1)
                        THEN TocContent(TRUE, 1, 1, <<Segment(1, k)>>)
                        ELSE SegContent([d \in 1..k |-> 100 + d])]
          /\ live = {100 + d : d \in 1..k}
    /\ writelock = Free
    /\ readlock = Free
    /\ writers = [w \in Writers |-> IdleWriter]
    /\ readers = [r \in Readers |-> IdleReader]
    /\ nsess = 0
    /\ nextdoc = 1
    /\ published = <<1>>
    /\ oor = FALSE
    /\ dels = FALSE
    /\ ndel = 0
    /\ MIdle

NextSeq ==
    \/ WriterInit(1, MaxSessions)
    \/ \E fields \in FieldInputs : WriterAddDocument(1, fields)
    \/ \E docnum \in DocnumInputs(1) :
          \E delete \in BOOLEAN : WriterDeleteDocument(1, docnum, delete)
    \/ \E mergetype \in MergeTypes : Commit(1, mergetype)
    \/ WriterCancel(1)

SpecSeq == InitSeq /\ [][NextSeq]_vars

\* the deleted set of an initial segment of `count` documents
InitDeleted(count, which) ==
    IF which = "none" \/ count = 0 THEN {}
    ELSE IF which = "first" THEN {0}
    ELSE 0..(count - 1)

\* The merge specification: one client and whole sessions as in SpecSeq,
\* starting from an index at generation 1 that earlier sessions left with
\* one to three segments of 0..MaxCount documents each (segment s holds the
\* documents 100*s + 1, 100*s + 2, ...), of which none, the first or all
\* are soft-deleted.
InitMerge ==
    /\ \E n \in 1..3 : \E counts \in [1..n -> 0..MaxCount] :
       \E which \in {"none", "first", "all"} :
          LET segments == [s \in 1..n |->
                  [Segment(s, counts[s]) EXCEPT
                       !.deleted = InitDeleted(counts[s], which)]]
              names == UNION {Segment_filenames(s) : s \in 1..n}
              segof(f) == CHOOSE s \in 1..n : f \in Segment_filenames(s)
          IN  /\ files = [f \in {toc_filename(1)} \cup names |->
                    IF f = toc_filename(1)
                    THEN TocContent(TRUE, 1, n, segments)
                    ELSE SegContent([d \in 1..counts[segof(f)] |->
                                        100 * segof(f) + d])]
              /\ live = UNION {{100 * s + d + 1 :
                                  d \in (0..(counts[s] - 1))
                                         \ segments[s].deleted} : s \in 1..n}
              /\ dels = (\E s \in 1..n : segments[s].deleted # {})
    /\ writelock = Free
    /\ readlock = Free
    /\ writers = [w \in Writers |-> IdleWriter]
    /\ readers = [r \in Readers |-> IdleReader]
    /\ nsess = 0
    /\ nextdoc = 1
    /\ published = <<1>>
    /\ oor = FALSE
    /\ ndel = 0
    /\ MIdle

\* the client opens two writers, one after the other
NextMerge ==
    \/ WriterInit(1, Cardinality(Writers))
    \/ WriterAddDocument(1, Schema)
    \/ \E mergetype \in MergeTypes : Commit(1, mergetype)
    \/ WriterCancel(1)

SpecMerge == InitMerge /\ [][NextMerge]_vars

\* The deletion specification: one session of delete_document calls (to
\* delete and to undelete, with docnums inside and outside the index) and a
\* commit, on the initial indexes of the merge specification that hold up
\* to MaxTotal documents.
InitDelete ==
    /\ InitMerge
    /\ SegmentSet_doc_count_all(read_toc(files).toc.segments) <= MaxTotal

NextDelete ==
    \/ WriterInit(1, 1)
    \/ \E docnum \in DocnumInputs(1) :
          \E delete \in BOOLEAN : WriterDeleteDocument(1, docnum, delete)
    \/ \E mergetype \in MergeTypes : Commit(1, mergetype)
    \/ WriterCancel(1)

SpecDelete == InitDelete /\ [][NextDelete]_vars

\* the matcher algebra
SpecMatcher == InitMatcher /\ [][MNextStep]_vars

InitAlgebra == IxInit /\ AInit

\* every matcher class, with scores, calls past the end and replace()
SpecAlgebra == InitAlgebra /\ [][ANextStep]_vars

InitScore == IxInit /\ SInit

\* the scores of the combining classes
SpecScore == InitScore /\ [][MNextStep]_vars

InitPhrase == IxInit /\ PInit

\* a phrase matcher
SpecPhrase == InitPhrase /\ [][MNextStep]_vars

InitTerms == IxInit /\ MNone /\ TInit

\* the term iteration of a MultiReader
SpecTerms == InitTerms /\ [][TNextStep]_vars

\* the storage holds the TOC and a segment file of an index named
\* "MAIN_9_t" and the TOC of an index named "OTHER" as well
ForeignFiles ==
    {<<"foreign", 9, "toc", 0>>, <<"foreign", 9, "trm", 0>>,
     <<"other", 0, "toc", 0>>}

IxInitShared ==
    /\ files = [f \in {toc_filename(0)} \cup ForeignFiles |->
                    TocContent(TRUE, 0, 0, <<>>)]
    /\ writelock = Free
    /\ readlock = Free
    /\ writers = [w \in Writers |-> IdleWriter]
    /\ readers = [r \in Readers |-> IdleReader]
    /\ nsess = 0
    /\ nextdoc = 1
    /\ published = <<0>>
    /\ live = {}
    /\ oor = FALSE
    /\ dels = FALSE
    /\ ndel = 0

InitClean == IxInitShared /\ MIdle

\* the writers alone: no reader holds a file open, every delete_file of
\* the cleanup succeeds
NextClean ==
    \/ \E w \in Writers : WriterInit(w, Cardinality(Writers))
    \/ \E w \in Writers : WriterAddDocument(w, Schema)
    \/ \E w \in Writers : \E mergetype \in MergeTypes : CommitMerge(w, mergetype)
    \/ \E w \in Writers : CommitWriteTocOpen(w)
    \/ \E w \in Writers : CommitWriteTocClose(w)
    \/ \E w \in Writers : CommitRenameToc(w)
    \/ \E w \in Writers : CommitLockClean(w)
    \/ \E w \in Writers : \E f \in writers[w].todelete : CommitDeleteFile(w, f)
    \/ \E w \in Writers : CommitUnlockClean(w)
    \/ \E w \in Writers : CommitRelease(w)
    \/ \E w \in Writers : WriterCancel(w)
    \/ \E w \in Writers : \E leak \in BOOLEAN : WriterInterrupt(w, leak)

\* writers and reader() calls in which no exception is raised
NextLive ==
    \/ \E w \in Writers : WriterInit(w, Cardinality(Writers))
    \/ \E w \in Writers : WriterAddDocument(w, Schema)
    \/ \E w \in Writers : \E mergetype \in MergeTypes : CommitMerge(w, mergetype)
    \/ \E w \in Writers : CommitWriteTocOpen(w)
    \/ \E w \in Writers : CommitWriteTocClose(w)
    \/ \E w \in Writers : CommitRenameToc(w)
    \/ \E w \in Writers : CommitLockClean(w)
    \/ \E w \in Writers : \E f \in writers[w].todelete : CommitDeleteFile(w, f)
    \/ \E w \in Writers : CommitUnlockClean(w)
    \/ \E w \in Writers : CommitRelease(w)
    \/ \E w \in Writers : WriterCancel(w)
    \/ \E r \in Readers : ReaderLock(r)
    \/ \E r \in Readers : ReaderReadToc(r)
    \/ \E r \in Readers : ReaderOpenSegments(r)
    \/ \E r \in Readers : ReaderUnlock(r)
    \/ \E r \in Readers : ReaderClose(r)

\* Fair scheduling: a thread that is inside commit() or reader() and can
\* take its next step takes it; the blocking READLOCK.acquire(True) of
\* commit() is granted if the lock is free again and again (a fair lock).
\* Calling commit(), cancel(), reader() or close() is up to the clients.
FairLive ==
    /\ \A w \in Writers :
          /\ WF_vars(CommitWriteTocOpen(w))
          /\ WF_vars(CommitWriteTocClose(w))
          /\ WF_vars(CommitRenameToc(w))
          /\ SF_vars(CommitLockClean(w))
          /\ WF_vars(\E f \in writers[w].todelete : CommitDeleteFile(w, f))
          /\ WF_vars(CommitUnlockClean(w))
          /\ WF_vars(CommitRelease(w))
    /\ \A r \in Readers :
          /\ WF_vars(ReaderReadToc(r))
          /\ WF_vars(ReaderOpenSegments(r))
          /\ WF_vars(ReaderUnlock(r))

\* the index under fair scheduling
SpecLive == Init /\ [][NextLive]_vars /\ FairLive

\* the writers and the calls that read the TOC without a lock
NextCount ==
    \/ \E w \in Writers : WriterInit(w, Cardinality(Writers))
    \/ \E w \in Writers : WriterAddDocument(w, Schema)
    \/ \E w \in Writers : \E mergetype \in MergeTypes : CommitMerge(w, mergetype)
    \/ \E w \in Writers : CommitWriteTocOpen(w)
    \/ \E w \in Writers : CommitWriteTocClose(w)
    \/ \E w \in Writers : CommitRenameToc(w)
    \/ \E w \in Writers : CommitLockClean(w)
    \/ \E w \in Writers : \E f \in writers[w].todelete : CommitDeleteFile(w, f)
    \/ \E w \in Writers : CommitUnlockClean(w)
    \/ \E w \in Writers : CommitRelease(w)
    \/ \E w \in Writers : WriterCancel(w)
    \/ \E r \in Readers : IndexLatestGeneration(r)
    \/ \E r \in Readers : IndexOpenToc(r)

\* document counts asked for next to commits
SpecCount == Init /\ [][NextCount]_vars

\* commits over a storage shared with other indexes
SpecClean == InitClean /\ [][NextClean]_vars

InitQuality == IxInit /\ QInit

\* the matchers with skip_to_quality over block-structured posting readers
SpecQuality == InitQuality /\ [][QNextStep]_vars

InitCopy == IxInit /\ CInit

\* a matcher and its copy
SpecCopy == InitCopy /\ [][CNextStep]_vars


(***************************************************************************)
(* Properties of the index (specifications Spec and SpecSeq)               *)
(***************************************************************************)
\* the TOC a reader or writer opening the index now would read
LatestToc == read_toc(files).toc

SegmentNames(segments) == {segments[k].name : k \in DOMAIN segments}

\* every file of every segment the TOC lists exists and the stored-fields
\* file holds the documents the TOC counts
ListedFilesPresent(fs, toc) ==
    \A k \in DOMAIN toc.segments :
        /\ Segment_filenames(toc.segments[k].name) \subseteq DOMAIN fs
        /\ Len(SegmentReader_docs(fs, toc.segments[k])) =
               toc.segments[k].doccount

\* C1: wherever commit() is interrupted (before the temporary TOC file is
\* written, between its write and the rename, after the rename, in the
\* middle of the cleanup), and in every other state, the TOC with the
\* highest generation in the storage is complete and every file of every
\* segment it lists exists: the index stays readable.
Theorem_C1 ==
    /\ read_toc(files).err = "none"
    /\ ListedFilesPresent(files, LatestToc)

\* a commit was interrupted in the middle of the cleanup: the previous TOC
\* is gone, files are still to be deleted, the new TOC lists a segment
Witness_C1 ==
    \E w \in Writers :
        /\ writers[w].pc = "dead"
        /\ writers[w].err = "Interrupted"
        /\ writers[w].todelete # {}
        /\ toc_filename(writers[w].generation - 1) \notin DOMAIN files
        /\ LatestToc.generation = writers[w].generation
        /\ LatestToc.segments # <<>>

\* the writers that hold a SegmentWriter (constructed, neither committed
\* nor cancelled, possibly abandoned after an exception)
OpenWriters == {w \in Writers : writers[w].pc # "idle"}

\* C2: while a SegmentWriter is open, constructing another one fails with
\* LockError and creates or modifies no file; at most one writer holds
\* WRITELOCK, and an open writer is the holder.
Theorem_C2 ==
    [][/\ \A w \in Writers :
            (writers[w].pc = "idle" /\ OpenWriters # {}
               /\ writers'[w] # writers[w])
            => /\ writers'[w].pc = "idle"
               /\ writers'[w].err = "LockError"
               /\ files' = files
               /\ writelock' = writelock
       /\ Cardinality({w \in Writers : writers'[w].pc # "idle"}) <= 1
       /\ \A w \in Writers : writers'[w].pc # "idle" => writelock' = w
      ]_vars

\* a constructor failed with LockError while another writer was open with
\* a document added
Witness_C2 ==
    \E w, v \in Writers :
        /\ w # v
        /\ writers[v].pc = "open"
        /\ writers[v].added
        /\ writelock = v
        /\ writers[w].pc = "idle"
        /\ writers[w].err = "LockError"

\* C3: the generations published by successive commits go up by exactly
\* one, latest_generation() is the last one published, and a writer that
\* has not yet published holds the generation it read plus one.
Theorem_C3 ==
    /\ \A k \in 1..(Len(published) - 1) : published[k + 1] = published[k] + 1
    /\ latest_generation(files) = published[Len(published)]
    /\ \A w \in Writers :
          writers[w].pc \in {"open", "merged", "tocopen", "tocclosed"}
          => writers[w].generation = latest_generation(files) + 1

\* two commits have published
Witness_C3 ==
    /\ Len(published) >= 3
    /\ latest_generation(files) = published[1] + 2

\* C4: what an open reader reports (doc_count_all(), doc_count(),
\* is_deleted(d) for every docnum d) does not change in any step, whatever
\* the writers delete and commit.
Theorem_C4 ==
    [][\A r \in Readers :
          (readers[r].pc = "open" /\ readers'[r].pc = "open")
          => reader_view(readers'[r], files') = reader_view(readers[r], files)
      ]_vars

\* a reader is open on documents at an earlier generation and the index
\* now reports something else
Witness_C4 ==
    \E r \in Readers :
        /\ readers[r].pc = "open"
        /\ readers[r].generation < latest_generation(files)
        /\ SegmentSet_doc_count(readers[r].segments) > 0
        /\ SegmentSet_doc_count(LatestToc.segments)
               < SegmentSet_doc_count(readers[r].segments)

RECURSIVE StoredLive(_, _)
\* the documents of the segments that are stored and not deleted
StoredLive(fs, segments) ==
    IF segments = <<>> THEN {}
    ELSE Range(KeptDocs(Head(segments),
                        SegmentReader_docs(fs, Head(segments)), 0))
         \cup StoredLive(fs, Tail(segments))

RECURSIVE StoredCount(_, _)
\* the number of document records in the segments' files
StoredCount(fs, segments) ==
    IF segments = <<>> THEN 0
    ELSE Len(SegmentReader_docs(fs, Head(segments)))
         + StoredCount(fs, Tail(segments))

\* C6: after any sequence of sessions (add_document, delete_document on
\* in-range docnums, commit with any merge policy) the index's doc_count()
\* is the number of documents added minus the number deleted, and these
\* are the documents stored; doc_count_all() is the number of document
\* records of the segments of the latest TOC, and without any deletion it
\* is the number of documents written.
Theorem_C6 ==
    (~oor) =>
        /\ SegmentSet_doc_count(LatestToc.segments) = Cardinality(live)
        /\ StoredLive(files, LatestToc.segments) = live
        /\ SegmentSet_doc_count_all(LatestToc.segments) =
               StoredCount(files, LatestToc.segments)
        /\ (~dels) =>
               SegmentSet_doc_count_all(LatestToc.segments) = Cardinality(live)

RECURSIVE StoredAll(_, _)
\* the documents that have a record in the segments' files
StoredAll(fs, segments) ==
    IF segments = <<>> THEN {}
    ELSE Range(SegmentReader_docs(fs, Head(segments)))
         \cup StoredAll(fs, Tail(segments))

\* two sessions committed; the first document added was deleted and a
\* merge purged its record while it kept the large first segment
Witness_C6 ==
    /\ ~oor
    /\ Len(published) = 3
    /\ nextdoc > 1
    /\ 1 \notin StoredAll(files, LatestToc.segments)
    /\ LatestToc.segments # <<>>
    /\ LatestToc.segments[1].name = 1
    /\ Segment_doc_count_all(LatestToc.segments[1]) = MaxSeg
    /\ Cardinality(live) = MaxSeg

(***************************************************************************)
(* Properties of the matcher algebra (specification SpecMatcher)           *)
(***************************************************************************)
IsPrefix(s, t) == Len(s) <= Len(t) /\ \A k \in 1..Len(s) : s[k] = t[k]

\* the matcher under test was only driven with is_active()/id()/next()
PlainIteration == mpc # "new" /\ mskips = 0

\* what plain iteration has to show against the list expected: the ids
\* yielded so far are its beginning, an active matcher sits on its next id
\* and an inactive one has yielded all of it
IteratesAs(expected) ==
    /\ merr = "none"
    /\ IsPrefix(mout, expected)
    /\ IF is_active(mt)
       THEN Len(mout) < Len(expected) /\ id(mt) = expected[Len(mout) + 1]
       ELSE mout = expected

UnionIds == SortedSeq(Range(minp.a) \cup Range(minp.b) \cup Range(minp.c))

IntersectionIds == SortedSeq(Range(minp.a) \cap Range(minp.b))

AndNotIds == SortedSeq(Range(minp.a) \ Range(minp.b))

ExcludeIds == SortedSeq(Range(minp.a) \ Range(minp.b))

\* C7: iterating UnionMatcher(a, b), and the nested UnionMatcher(a,
\* UnionMatcher(b, c)), with is_active()/id()/next() yields exactly
\* sorted(set(a) | set(b) [| set(c)]), each id once, without raising, and
\* all_ids() of the fresh matcher is the same list.
Theorem_C7 ==
    (mkind \in {"union", "union3"} /\ PlainIteration) =>
        (IteratesAs(UnionIds) /\ mall = UnionIds)

\* a nested union over overlapping lists was iterated to its end
Witness_C7 ==
    /\ mkind = "union3"
    /\ PlainIteration
    /\ ~is_active(mt)
    /\ Range(minp.a) \cap Range(minp.b) # {}
    /\ Range(minp.b) \cap Range(minp.c) # {}
    /\ Len(mout) > MaxLen

\* C8: iterating IntersectionMatcher(a, b) with is_active()/id()/next()
\* yields exactly sorted(set(a) & set(b)) and then the matcher is inactive;
\* neither the constructor nor any next() raises.
Theorem_C8 ==
    (mkind = "isect" /\ PlainIteration) => IteratesAs(IntersectionIds)

\* an intersection with a common id behind a non-common one was iterated
\* to its end
Witness_C8 ==
    /\ mkind = "isect"
    /\ PlainIteration
    /\ ~is_active(mt)
    /\ mout # <<>>
    /\ Range(minp.a) # Range(minp.b)
    /\ minp.a[1] # minp.b[1]

\* C9: iterating AndNotMatcher(a, b) with is_active()/id()/next() yields
\* exactly sorted(set(a) - set(b)) and then the matcher is inactive,
\* without raising; the matcher is never active at an id contained in b.
Claim_C9 ==
    (mkind = "andnot" /\ PlainIteration) =>
        /\ IteratesAs(AndNotIds)
        /\ (is_active(mt) => id(mt) \notin Range(minp.b))

\* C10: ExcludeMatcher(child, S), driven with is_active()/id()/next() and
\* any skip_to calls, never raises and is never active at an id in S: an
\* active matcher sits on the least child id that is not in S and not
\* below the ids already passed (by next() or skipped over), and it is
\* inactive exactly when there is none.  Without skip_to the ids yielded
\* are exactly the child's ids that are not in S, in order; all_ids() is
\* that list.
Theorem_C10 ==
    (mkind = "exclude" /\ mpc # "new") =>
        LET rest == {x \in Range(ExcludeIds) : x >= mfloor} IN
        /\ merr = "none"
        /\ mall = ExcludeIds
        /\ is_active(mt) = (rest # {})
        /\ (is_active(mt) =>
               id(mt) \notin Range(minp.b) /\ id(mt) = SetMin(rest))
        /\ (mskips = 0 => IteratesAs(ExcludeIds))

\* after a skip_to over excluded ids the matcher sits on a later id
Witness_C10 ==
    /\ mkind = "exclude"
    /\ mskips = 1
    /\ is_active(mt)
    /\ mfloor \in Range(minp.b) \cap Range(minp.a)
    /\ id(mt) > mfloor

(***************************************************************************)
(* Properties of the whole algebra (specifications SpecAlgebra, SpecScore  *)
(* and SpecCopy)                                                           *)
(***************************************************************************)
\* the ids of [0, limit) that are neither in the child nor missing
InverseIds ==
    SortedSeq({x \in 0..(mopt.limit - 1) :
                  x \notin Range(minp.a) /\ x \notin mopt.missing})

\* C11: InverseMatcher(child, N, missing), iterated with
\* is_active()/id()/next(), yields exactly the ids of [0, N) that are not in
\* the child and not missing, in ascending order; after skip_to(t) (and
\* after the ids already yielded) what remains to be yielded are exactly
\* those of them not below t, and no call raises.
Claim_C11 ==
    (mkind = "inverse" /\ mpc \in {"run", "raised"} /\ mdead = 0) =>
        /\ mpc = "run"
        /\ Remaining(mt) =
              [ids |-> SortedSeq({x \in Range(InverseIds) : x >= mfloor}),
               err |-> "none"]

\* what C12 asks of the call that was just made on the matcher under test
Monotone ==
    /\ (mop'.op = "next" =>
           \/ ~is_active(mt')
           \/ id(mt') # IdErr /\ id(mt') > id(mt))
    /\ (mop'.op = "skip_to" =>
           \/ ~is_active(mt')
           \/ id(mt') # IdErr /\ id(mt') >= mop'.t /\ id(mt') >= id(mt))
    /\ (mop'.op \in {"dead_next", "dead_skip_to"} => ~is_active(mt'))

\* C12: for a matcher M of any class over strictly ascending leaves, next()
\* on the active M leaves it active at a strictly greater id or exhausts
\* it; skip_to(t) leaves it active at an id that is at least t and not
\* smaller than before, or exhausts it; no call makes an inactive M active
\* again.
Claim_C12 == [][Monotone]_vars

\* C13: next() and skip_to() called on an inactive (exhausted) matcher of
\* any class raise ReadTooFar and leave the matcher inactive.
Claim_C13 ==
    mop.op \in {"dead_next", "dead_skip_to"} =>
        merr = "ReadTooFar" /\ ~is_active(mt)

\* C14: for ListMatcher, WrappingMatcher, ExcludeMatcher, UnionMatcher,
\* IntersectionMatcher, AndNotMatcher, RequireMatcher and AndMaybeMatcher,
\* copy() taken after any next()/skip_to() calls does not raise and returns
\* a cursor that yields exactly the ids the original was still to yield;
\* from then on a next() or skip_to() on one of the two leaves what the
\* other yields unchanged.
Theorem_C14 ==
    /\ (mop.op = "copy" => mpc = "copied")
    /\ (mcp # NullMatcher =>
           Remaining(mt) = mexp.orig /\ Remaining(mcp) = mexp.copy)

\* the original was advanced, copied, and then the copy was advanced past
\* the original
Witness_C14 ==
    /\ mpc = "copied"
    /\ mop.op = "next_copy"
    /\ Len(mexp.orig.ids) < Len(mall)
    /\ Len(mexp.copy.ids) < Len(mexp.orig.ids)

\* the score a leaf of weight w over the list ids gives to docid x
LeafScore(ids, w, x) == IF x \in Range(ids) THEN w ELSE 0

\* C15: at every docid at which a UnionMatcher, also a nested one, is
\* active (after any next() and skip_to() calls), score() is the sum of the
\* scores of exactly those leaves whose posting lists contain that docid.
Theorem_C15 ==
    (mkind \in {"union", "union3"} /\ mpc = "run" /\ is_active(mt)) =>
        /\ id(mt) # IdErr
        /\ score(mt) = LeafScore(minp.a, mopt.wa, id(mt))
                       + LeafScore(minp.b, mopt.wb, id(mt))
                       + LeafScore(minp.c, mopt.wc, id(mt))

\* a nested union went on to a docid that the first and the third list
\* hold and the second does not
Witness_C15 ==
    /\ mkind = "union3"
    /\ mpc = "run"
    /\ mout # <<>>
    /\ is_active(mt)
    /\ id(mt) \in (Range(minp.a) \cap Range(minp.c)) \ Range(minp.b)
    /\ score(mt) = mopt.wa + mopt.wc

\* C16: RequireMatcher(a, b) never raises and what it is still to yield
\* are exactly the ids of set(a) & set(b) not passed yet (all of them, in
\* order, under plain iteration); wherever it is active, score() is a's
\* score and weight() is a's weight, without b's.
Theorem_C16 ==
    (mkind = "require" /\ mpc \in {"run", "raised"}) =>
        /\ mpc = "run"
        /\ Remaining(mt) =
              [ids |-> SortedSeq({x \in Range(IntersectionIds) : x >= mfloor}),
               err |-> "none"]
        /\ (mskips = 0 => IteratesAs(IntersectionIds))
        /\ (is_active(mt) => score(mt) = mopt.wa /\ weight(mt) = mopt.wa)

\* a RequireMatcher whose b weighs more than its a went on to a second
\* common id
Witness_C16 ==
    /\ mkind = "require"
    /\ mpc = "run"
    /\ mout # <<>>
    /\ is_active(mt)
    /\ mopt.wb > mopt.wa
    /\ score(mt) = mopt.wa

\* C17: AndMaybeMatcher(a, b) never raises and is still to yield exactly
\* the ids of a not passed yet; at every position reached by next() and
\* skip_to() calls, score() is a's score plus b's score if b's posting list
\* contains the current docid, and a's score alone otherwise.
Claim_C17 ==
    (mkind = "andmaybe" /\ mpc \in {"run", "raised"}) =>
        /\ mpc = "run"
        /\ Remaining(mt) =
              [ids |-> SortedSeq({x \in Range(minp.a) : x >= mfloor}),
               err |-> "none"]
        /\ (is_active(mt) =>
               score(mt) = mopt.wa + LeafScore(minp.b, mopt.wb, id(mt)))

\* C18: for DisjunctionMaxMatcher(a, b, tiebreak), whenever the matcher is
\* active: at a docid matched by both children score() is
\* max(a.score, b.score) + tiebreak * min(a.score, b.score); at a docid
\* matched by only one child score() is that child's score.
DisMaxScore(sa, sb, tiebreak) ==
    IF sa > 0 /\ sb > 0
    THEN IF sa >= sb THEN sa + tiebreak * sb ELSE sb + tiebreak * sa
    ELSE sa + sb

Claim_C18 ==
    (mkind = "dismax" /\ mpc = "run" /\ is_active(mt)) =>
        /\ id(mt) # IdErr
        /\ score(mt) = DisMaxScore(LeafScore(minp.a, mopt.wa, id(mt)),
                                   LeafScore(minp.b, mopt.wb, id(mt)),
                                   mopt.tiebreak)

\* C19: for every fresh matcher (constructed, no next() or skip_to() called
\* yet) of every class, list(all_ids()) is the list of ids that the loop
\* is_active()/id()/next() collects on an identically constructed matcher,
\* and that loop ends without an exception.
Claim_C19 ==
    (mop.op = "construct" /\ mpc = "run") =>
        Remaining(mt) = [ids |-> mall, err |-> "none"]

\* C20: in every state a matcher reaches by next() and skip_to() calls,
\* m.replace() does not raise, and the matcher it returns has the same
\* is_active() and the same remaining sequence of (id, score) pairs as m.
Claim_C20 ==
    mpc = "replaced" =>
        /\ merr = "none"
        /\ is_active(mcp) = is_active(mt)
        /\ Iterate(mcp).ids = Iterate(mt).ids
        /\ Iterate(mcp).scores = Iterate(mt).scores

(***************************************************************************)
(* Properties of the phrase matcher (specification SpecPhrase)             *)
(***************************************************************************)
\* the positions of word w of the phrase in document d
WordPositions(w, d) ==
    LET wd == minp.words[w] IN
    IF d \in Range(wd.ids)
    THEN Range(wd.poses[CHOOSE j \in 1..Len(wd.ids) : wd.ids[j] = d])
    ELSE {}

\* positions p_w = p, p_(w+1), .. of the words w, w+1, .. in d can be
\* chosen so that each follows the one before it by at most slop
RECURSIVE ChainFrom(_, _, _)
ChainFrom(w, p, d) ==
    \/ w = Len(minp.words)
    \/ \E q \in WordPositions(w + 1, d) :
          /\ q - p > 0
          /\ q - p <= mopt.slop
          /\ ChainFrom(w + 1, q, d)

\* every word is in d, with positions that make the phrase
PhraseIn(d) == \E p \in WordPositions(1, d) : ChainFrom(1, p, d)

PhraseIds == SortedSeq({d \in 0..MaxPDoc : PhraseIn(d)})

\* C21: a PhraseMatcher never raises on an active matcher, plain iteration
\* yields, in ascending order, exactly the docids that hold every word with
\* positions p_0 .. p_(k-1) such that 0 < p_(i+1) - p_i <= slop, and after
\* next() and skip_to() calls it is still to yield exactly those not passed.
Theorem_C21 ==
    (mkind = "phrase" /\ mpc \in {"run", "raised"}) =>
        /\ mpc = "run"
        /\ Remaining(mt) =
              [ids |-> SortedSeq({x \in Range(PhraseIds) : x >= mfloor}),
               err |-> "none"]
        /\ (mskips = 0 => IteratesAs(PhraseIds))

\* a phrase of several words was read to its end: it yielded a document and
\* left out one that holds every word
Witness_C21 ==
    /\ mkind = "phrase"
    /\ mpc = "run"
    /\ mskips = 0
    /\ Len(minp.words) >= 2
    /\ mout # <<>>
    /\ ~is_active(mt)
    /\ \E d \in 0..MaxPDoc :
          /\ d \notin Range(mout)
          /\ \A w \in 1..Len(minp.words) : WordPositions(w, d) # {}


(***************************************************************************)
(* Properties of the merge policies (specification SpecMerge)              *)
(***************************************************************************)
\* the documents a commit of writer w starts from: the documents of its
\* segments that are not deleted and the documents it was handed
WriterLive(w, fs) == StoredLive(fs, w.segments) \cup w.gnew

\* C22: a commit with the OPTIMIZE policy absorbs every existing segment:
\* the TOC it publishes lists at most one segment, the document records of
\* that segment are exactly the documents of the old segments that were not
\* deleted and the documents this writer added, and nothing is deleted in
\* it (doc_count() = doc_count_all()).
Theorem_C22 ==
    [][\A sorted \in SortedSegmentLists(writers[1].segments) :
         LET r == SegmentWriter_commit(writers[1], "OPTIMIZE", sorted, files)
             segs == read_toc(files').toc.segments
         IN  (/\ writers[1].pc = "open"
              /\ r.w.err = "none"
              /\ files' = r.files
              /\ Len(published') = Len(published) + 1)
             => /\ Len(segs) <= 1
                /\ StoredAll(files', segs) = WriterLive(writers[1], files)
                /\ SegmentSet_doc_count_all(segs) =
                       Cardinality(WriterLive(writers[1], files))
                /\ StoredCount(files', segs) =
                       SegmentSet_doc_count_all(segs)
                /\ \A k \in DOMAIN segs : ~Segment_has_deletions(segs[k])
                /\ SegmentSet_doc_count(segs) =
                       SegmentSet_doc_count_all(segs)]_vars

\* three full segments, each with its first document deleted, and one added
\* document were committed into the single segment 4 (MERGE_SMALL retains
\* segments of MaxCount documents)
Witness_C22 ==
    /\ Len(published) = 2
    /\ writers[1].pc = "idle"
    /\ Len(LatestToc.segments) = 1
    /\ LatestToc.segments[1].name = 4
    /\ Segment_doc_count_all(LatestToc.segments[1]) = 3 * (MaxCount - 1) + 1
    /\ StoredAll(files, LatestToc.segments) =
           {1} \cup {100 * s + d : s \in 1..3, d \in 2..MaxCount}


\* the segment at 0-based index i of the sorted list is to be absorbed: the
\* running total of doc_count_all, segment i counted, is below fib(i + 5)
Absorbed(sorted, i) == SumCounts(sorted, i + 1) < fib(i + 5)

RECURSIVE RetainedFrom(_, _)
\* the segments from index i on that are not absorbed, in sorted order
RetainedFrom(sorted, i) ==
    IF i >= Len(sorted) THEN <<>>
    ELSE (IF Absorbed(sorted, i) THEN <<>> ELSE <<sorted[i + 1]>>)
         \o RetainedFrom(sorted, i + 1)

RECURSIVE AbsorbedDocsFrom(_, _, _)
\* the documents of the absorbed segments from index i on that are not
\* deleted, in the order they are copied
AbsorbedDocsFrom(sorted, i, fs) ==
    IF i >= Len(sorted) THEN <<>>
    ELSE (IF Absorbed(sorted, i)
          THEN KeptDocs(sorted[i + 1], SegmentReader_docs(fs, sorted[i + 1]), 0)
          ELSE <<>>)
         \o AbsorbedDocsFrom(sorted, i + 1, fs)

\* C23: MERGE_SMALL walks the segments in ascending doc_count_all order;
\* the segment at sorted index i is absorbed into the writer's new segment
\* (its documents that are not deleted are copied) exactly when the running
\* total of doc_count_all, segment i counted, is below fib(i + 5), and is
\* otherwise in the returned set as it was; the writer has something to
\* write when it had before or a segment with documents was absorbed.
Theorem_C23 ==
    writers[1].pc = "open" =>
        \A sorted \in SortedSegmentLists(writers[1].segments) :
            LET w == writers[1]
                r == MERGE_SMALL(w, sorted, files)
            IN  /\ \A x, y \in DOMAIN sorted :
                       x < y => Segment_doc_count_all(sorted[x])
                                    <= Segment_doc_count_all(sorted[y])
                /\ r.err = "none"
                /\ r.segments = RetainedFrom(sorted, 0)
                /\ r.w.docs = w.docs \o AbsorbedDocsFrom(sorted, 0, files)
                /\ r.w.docnum = Len(r.w.docs)
                /\ r.w.added =
                       (w.added \/ \E i \in 0..(Len(sorted) - 1) :
                                      /\ Absorbed(sorted, i)
                                      /\ Segment_doc_count_all(sorted[i + 1]) > 0)

\* a writer about to merge three segments of 4 documents: the first is
\* absorbed (4 < fib(5) = 5), the second retained (8 is not below fib(6) =
\* 8) and the third absorbed (12 < fib(7) = 13)
Witness_C23 ==
    /\ writers[1].pc = "open"
    /\ Len(writers[1].segments) = 3
    /\ \A k \in 1..3 : Segment_doc_count_all(writers[1].segments[k]) = 4
    /\ \E sorted \in SortedSegmentLists(writers[1].segments) :
          /\ Absorbed(sorted, 0)
          /\ ~Absorbed(sorted, 1)
          /\ Absorbed(sorted, 2)
          /\ Len(MERGE_SMALL(writers[1], sorted, files).segments) = 1


\* what a segment holds, whatever it is called: its doc_count_all, its
\* deleted set and its document records
SegmentContent(fs, seg) ==
    [doccount |-> seg.doccount, deleted |-> seg.deleted,
     docs |-> SegmentReader_docs(fs, seg)]

\* what a segment set holds, whatever the names and the order of its
\* segments: how many segments there are of each content
SegmentSetContent(fs, segments) ==
    LET cs == {SegmentContent(fs, segments[k]) : k \in DOMAIN segments} IN
    [c \in cs |-> Cardinality({k \in DOMAIN segments :
                                  SegmentContent(fs, segments[k]) = c})]

\* the storage after a session that adds and deletes nothing and commits
\* with MERGE_SMALL, for every order the sort may give
MergeSmallSessions(fs, stamp) ==
    LET a == SegmentWriter_init(fs, stamp) IN
    {SegmentWriter_commit(a.w, "MERGE_SMALL", sorted, a.files).files :
        sorted \in SortedSegmentLists(a.w.segments)}

\* C24: MERGE_SMALL is idempotent: from any committed segment set, also one
\* with soft-deleted documents, a commit with MERGE_SMALL and no new writes
\* followed by another one leaves the segment set the first one left (as
\* many segments with the same counts, deleted sets and documents; the names
\* of rewritten segments and the order of the segments are not compared).
Claim_C24 ==
    writers[1].pc = "idle" =>
        \A fs1 \in MergeSmallSessions(files, nsess + 1) :
            \A fs2 \in MergeSmallSessions(fs1, nsess + 2) :
                SegmentSetContent(fs2, read_toc(fs2).toc.segments) =
                    SegmentSetContent(fs1, read_toc(fs1).toc.segments)


(***************************************************************************)
(* Properties of deletion (specification SpecDelete)                       *)
(***************************************************************************)
\* the segments a delete_document call may be made on: those of the open
\* writer, else those of the TOC
CurrentSegments ==
    IF writers[1].pc = "open" THEN writers[1].segments ELSE LatestToc.segments

\* every repeated call on every segment raises and changes nothing
DeleteRaises ==
    \A k \in DOMAIN CurrentSegments :
        LET s == CurrentSegments[k] IN
        \A d \in -1..Segment_doc_count_all(s) :
            LET r == Segment_delete_document(s, d, Segment_is_deleted(s, d))
            IN  /\ r.err # "none"
                /\ r.s.deleted = s.deleted
                /\ Segment_deleted_count(r.s) = Segment_deleted_count(s)
                /\ Segment_doc_count(r.s) = Segment_doc_count(s)

\* a delete_document call of the writer that raised KeyError left the
\* writer's segments as they were
DeleteRaisedStep ==
    (ndel' = ndel + 1 /\ writers'[1].err = "KeyError")
        => writers'[1].segments = writers[1].segments

\* C25: Segment.delete_document(d) on a deleted docnum raises an error, and
\* so does delete_document(d, delete=False) on a docnum that is not
\* deleted; the call leaves the deleted set, deleted_count() and
\* doc_count() as they were.
Theorem_C25 == []DeleteRaises /\ [][DeleteRaisedStep]_vars

\* the writer's delete_document call raised KeyError on segments that carry
\* deleted documents and is where the TOC left it
Witness_C25 ==
    /\ writers[1].pc = "open"
    /\ writers[1].err = "KeyError"
    /\ ndel = 1
    /\ writers[1].segments = LatestToc.segments
    /\ \E k \in DOMAIN writers[1].segments :
          /\ Segment_has_deletions(writers[1].segments[k])
          /\ Segment_doc_count(writers[1].segments[k]) > 0


\* C26: for a docnum d that is not deleted, delete_document(d) followed by
\* delete_document(d, delete=False) succeeds and gives back
\* is_deleted(d) = False and the doc_count() there was, and no other docnum
\* changes its deleted status (SegmentSet.delete_document on the docnums of
\* the index).
Claim_C26 ==
    \A d \in 0..(SegmentSet_doc_count_all(CurrentSegments) - 1) :
        (~SegmentSet_is_deleted(CurrentSegments, d)) =>
            LET r1 == SegmentSet_delete_document(CurrentSegments, d, TRUE)
                r2 == SegmentSet_delete_document(r1.segments, d, FALSE)
            IN  /\ r1.err = "none"
                /\ SegmentSet_is_deleted(r1.segments, d)
                /\ r2.err = "none"
                /\ ~SegmentSet_is_deleted(r2.segments, d)
                /\ SegmentSet_doc_count(r2.segments) =
                       SegmentSet_doc_count(CurrentSegments)
                /\ r2.segments = CurrentSegments

\* C27: after any delete_document calls with any integer docnums the
\* deleted set of each segment holds only docnums in [0, doc_count_all) of
\* the segment, so 0 <= doc_count() <= doc_count_all().
Claim_C27 ==
    \A k \in DOMAIN CurrentSegments :
        LET s == CurrentSegments[k] IN
        /\ s.deleted \subseteq 0..(Segment_doc_count_all(s) - 1)
        /\ 0 <= Segment_doc_count(s)
        /\ Segment_doc_count(s) <= Segment_doc_count_all(s)


\* C28: for every segment set, also one with segments without documents,
\* and every docnum d in [0, doc_count_all()), _segment_and_docnum(d) gives
\* a segment s and a local docnum l with 0 <= l < s.doc_count_all() and
\* offset(s) + l = d, offset(s) being the sum of doc_count_all of the
\* segments before s; MultiReader._segment_and_docnum gives the same.
Theorem_C28 ==
    \A d \in 0..(SegmentSet_doc_count_all(CurrentSegments) - 1) :
        LET r == SegmentSet_segment_and_docnum(CurrentSegments, d)
            mr == MultiReader_segment_and_docnum(CurrentSegments, d)
        IN  /\ r.err = "none"
            /\ r.k \in DOMAIN CurrentSegments
            /\ 0 <= r.docnum
            /\ r.docnum < Segment_doc_count_all(CurrentSegments[r.k])
            /\ SumCounts(CurrentSegments, r.k - 1) + r.docnum = d
            /\ mr.err = "none"
            /\ mr.segmentnum = r.k - 1
            /\ mr.docnum = r.docnum

\* delete_document(2) on segments of 1, 0 and 2 documents marked local
\* docnum 1 of the third segment
Witness_C28 ==
    /\ writers[1].pc = "open"
    /\ writers[1].err = "none"
    /\ ndel = 1
    /\ Len(writers[1].segments) = 3
    /\ Segment_doc_count_all(writers[1].segments[1]) = 1
    /\ Segment_doc_count_all(writers[1].segments[2]) = 0
    /\ Segment_doc_count_all(writers[1].segments[3]) = 2
    /\ writers[1].segments[1].deleted = {}
    /\ writers[1].segments[3].deleted = {1}


(***************************************************************************)
(* Properties of add_document (specification SpecSeq)                      *)
(***************************************************************************)
\* a step that ends with UnknownFieldError raised leaves the writer's next
\* docnum, stored-fields list, pool, _added flag and segments as they were
UnknownFieldStep ==
    writers'[1].err = "UnknownFieldError"
        => /\ writers'[1].docnum = writers[1].docnum
           /\ writers'[1].docs = writers[1].docs
           /\ writers'[1].pool = writers[1].pool
           /\ writers'[1].added = writers[1].added
           /\ writers'[1].segments = writers[1].segments
           /\ writers'[1].pc = "open"
           /\ files' = files

\* no rejected document (they are the negative ones) is held by the writer
\* or by a file of the storage
NoRejectedDocument ==
    /\ \A k \in DOMAIN writers[1].docs : writers[1].docs[k] > 0
    /\ \A f \in DOMAIN files : \A k \in DOMAIN files[f].docs :
           files[f].docs[k] > 0

\* C30: add_document with a field name that is not in the schema and does
\* not start with an underscore raises UnknownFieldError and leaves the
\* writer as it was (next docnum, stored fields, pool, _added); what is
\* committed later holds nothing of the rejected document: the documents
\* stored are those accepted and not deleted.
Theorem_C30 ==
    /\ [][UnknownFieldStep]_vars
    /\ []NoRejectedDocument
    /\ []((~oor) => StoredLive(files, LatestToc.segments) = live)

\* the writer accepted a document and then had one rejected
Witness_C30 ==
    /\ writers[1].pc = "open"
    /\ writers[1].err = "UnknownFieldError"
    /\ writers[1].added
    /\ writers[1].docnum = 1
    /\ Len(published) = 1


(***************************************************************************)
(* Properties of the term iteration (specification SpecTerms)              *)
(***************************************************************************)
\* the terms the call is to give: those of the readers from the start on
TermsWanted ==
    {t \in UNION {Range(tin.readers[r]) : r \in DOMAIN tin.readers} :
        tin.all \/ ~TermLess(t, tin)}

\* the sum of a field of the entries for (fnum, text) over the readers
RECURSIVE SumOverReaders(_, _, _, _)
SumOverReaders(r, fnum, text, field) ==
    IF r = 0 THEN 0
    ELSE SumOverReaders(r - 1, fnum, text, field)
         + (IF \E t \in Range(tin.readers[r]) : t.fnum = fnum /\ t.text = text
            THEN (CHOOSE t \in Range(tin.readers[r]) :
                      t.fnum = fnum /\ t.text = text)[field]
            ELSE 0)

RECURSIVE MergedTerms(_)
\* the keys K in increasing order, each once, with the summed frequencies
MergedTerms(K) ==
    IF K = {} THEN <<>>
    ELSE LET k == CHOOSE x \in K : \A y \in K :
                      x[1] < y[1] \/ (x[1] = y[1] /\ x[2] <= y[2])
         IN  <<[fnum |-> k[1], text |-> k[2],
                docfreq |-> SumOverReaders(Len(tin.readers), k[1], k[2],
                                           "docfreq"),
                termcount |-> SumOverReaders(Len(tin.readers), k[1], k[2],
                                             "termcount")]>>
             \o MergedTerms(K \ {k})

ExpectedTerms == MergedTerms({<<t.fnum, t.text>> : t \in TermsWanted})

\* C29: iter() and iter_from(field, text) of a MultiReader yield every
\* (field, term) that a segment has (from the start term on) exactly once,
\* in strictly increasing order, with doc_freq and collection_freq summed
\* over the segments that have the term, also when the iterator of some
\* segment is empty.
Claim_C29 ==
    /\ IsPrefix(tout, ExpectedTerms)
    /\ tgen.pc = "done" => tout = ExpectedTerms


(***************************************************************************)
(* Properties of MultiMatcher and InverseMatcher (specification            *)
(* SpecAlgebra)                                                            *)
(***************************************************************************)
\* the copy of the matcher is active exactly when the matcher is and is to
\* yield exactly the ids the matcher is still to yield
CopyAgrees(m) ==
    \A r \in {copy(m)} :
        /\ r.err = "none"
        /\ is_active(r.m) = is_active(m)
        /\ Remaining(r.m) = Remaining(m)

\* C31: MultiMatcher.copy() taken after any sequence of next() and
\* skip_to() calls, in particular once current > 0, gives a matcher that is
\* active exactly when the original is and that yields exactly the ids the
\* original would still yield.
Claim_C31 ==
    (mkind = "multi" /\ mpc = "run" /\ merr = "none") => CopyAgrees(mt)

\* C32: InverseMatcher.copy() taken after the matcher has advanced is at
\* the id of the original and yields exactly the ids the original would
\* still yield: no id below the original's current id and no id of the
\* child.
Claim_C32 ==
    (mkind = "inverse" /\ mpc = "run" /\ merr = "none") =>
        /\ CopyAgrees(mt)
        /\ \A r \in {copy(mt)} :
               /\ is_active(mt) => id(r.m) = id(mt)
               /\ \A k \in DOMAIN Remaining(r.m).ids :
                      /\ Remaining(r.m).ids[k] >= mt.docid
                      /\ Remaining(r.m).ids[k] \notin Range(minp.a)

StrictlyAscending(ids) ==
    \A j, k \in DOMAIN ids : j < k => ids[j] < ids[k]

\* the ids of the children with their offsets added, one child after the
\* other
MultiConcat ==
    minp.a \o [k \in 1..Len(minp.b) |-> minp.b[k] + (MaxId + 1)]

\* C33: a MultiMatcher over children c_0..c_n-1 with strictly increasing
\* offsets, empty children included, read with id()/next() yields the ids of
\* c_i plus offset_i one child after the other, strictly ascending; and in
\* every state reached by next() or skip_to(), if the matcher is active the
\* child at index current is active.
Claim_C33 ==
    (mkind = "multi" /\ mt.type = "multi") =>
        /\ mop.op = "construct" =>
               /\ Remaining(mt) = [ids |-> MultiConcat, err |-> "none"]
               /\ StrictlyAscending(MultiConcat)
        /\ is_active(mt) => is_active(mt.matchers[mt.current + 1])


(***************************************************************************)
(* Properties of skip_to_quality (specification SpecQuality)               *)
(***************************************************************************)
\* the IntersectionMatcher of the matcher under test
QIntersection == IF mt.type = "require" THEN mt.child ELSE mt

\* C34: in every state of an IntersectionMatcher reached by the
\* constructor, next() and skip_to(), an active matcher has a.id() ==
\* b.id(); and the assertion a_id != b_id at the start of _find_next never
\* fails for strictly ascending children, also not when _find_next is
\* reached through RequireMatcher.skip_to_quality or
\* IntersectionMatcher.skip_to_quality.
Claim_C34 ==
    (mkind \in {"qisect", "qrequire"} /\ mpc # "new") =>
        /\ merr # "AssertionError"
        /\ is_active(QIntersection) =>
               id(QIntersection.a) = id(QIntersection.b)

\* the postings a matcher is still to yield: docid and score
Postings(m) ==
    {<<iterate(m).ids[k], iterate(m).scores[k]>> : k \in DOMAIN iterate(m).ids}

\* a skip_to_quality(minq) step of a union drops no docid that it was to
\* yield with a score above minq and leaves that score as it was
QualityKept ==
    (mkind = "qunion" /\ mop'.op = "skip_to_quality") =>
        /\ merr' = "none"
        /\ \A p \in Postings(mt) : p[2] > mop'.t => p \in Postings(mt')

\* C35: over block-structured posting readers whose skip_to_quality(q)
\* goes on to the next block of a block quality above q,
\* UnionMatcher.skip_to_quality(minq) discards only postings that cannot
\* score above minq: every docid whose full union score exceeds minq is
\* still yielded, with its full score.
Claim_C35 == [][QualityKept]_vars


(***************************************************************************)
(* Properties of the cleanup (specification SpecClean)                     *)
(***************************************************************************)
\* the cleanup of writer w deletes neither the TOC it published nor a file
\* of a segment that TOC lists
CleanupSpares(w) ==
    writers[w].pc = "cleaning" =>
        writers[w].todelete
            \cap ({toc_filename(writers[w].generation)}
                     \cup SegmentSetFiles(writers[w].new_segments)) = {}

\* after the cleanup of writer w the storage holds one TOC of the index,
\* the published one, and segment files of listed segments only
CleanupDone(w) ==
    writers[w].pc = "cleaned" =>
        /\ {f \in DOMAIN files : f[1] = "toc"}
               = {toc_filename(writers[w].generation)}
        /\ \A f \in DOMAIN files :
               f[1] = "seg" => f[2] \in SegmentNames(writers[w].new_segments)

\* C36: after a successful commit at new_gen in which every file deletion
\* succeeds, the storage holds exactly one TOC of the index, that of
\* new_gen, and no segment file of a segment that is not in the new segment
\* set; the cleanup never deletes the new_gen TOC or a file of a segment of
\* the new set, and never touches the files of a differently named index.
Claim_C36 ==
    /\ \A w \in Writers : CleanupSpares(w) /\ CleanupDone(w)
    /\ ForeignFiles \subseteq DOMAIN files


(***************************************************************************)
(* Properties of reader() next to a commit (specification Spec)            *)
(***************************************************************************)
\* reader r has read a TOC and has not left reader() yet
ReaderResolving(r) == readers[r].pc \in {"toc", "opened"}

\* C37: a FileIndex.reader() call that runs concurrently with a commit, in
\* any interleaving, resolves one TOC generation and finds every file of
\* every segment that TOC lists when it opens them: the cleanup of the
\* writer never runs between the reader's TOC resolution and its opening
\* of the segments.
Theorem_C37 ==
    \A r \in Readers :
        /\ readers[r].err = "none"
        /\ ReaderResolving(r) =>
               /\ readlock = -r
               /\ \A w \in Writers : writers[w].pc # "cleaning"
               /\ toc_filename(readers[r].generation) \in DOMAIN files
               /\ files[toc_filename(readers[r].generation)].segments
                      = readers[r].segments
               /\ SegmentSetFiles(readers[r].segments) \subseteq DOMAIN files

\* a reader has opened the files of the segments of the TOC it read while
\* a writer that published a later TOC, which lists none of them, waits to
\* clean up
Witness_C37 ==
    \E r \in Readers, w \in Writers :
        /\ readers[r].pc = "opened"
        /\ readers[r].open # {}
        /\ writers[w].pc = "renamed"
        /\ writers[w].generation > readers[r].generation
        /\ readers[r].open \cap SegmentSetFiles(writers[w].new_segments) = {}


(***************************************************************************)
(* Properties of the locks (specification Spec)                            *)
(***************************************************************************)
\* the SegmentWriter of thread w has ended: commit() or cancel() returned,
\* or the constructor or commit() raised
WriterEnded(w) == writers[w].pc \in {"idle", "dead"}

\* C38: WRITELOCK is released on every path that ends a writer: when
\* commit() or cancel() returns, and also when the constructor fails after
\* it acquired the lock or commit() raises part-way; a SegmentWriter
\* constructed afterwards can acquire the lock.
Claim_C38 ==
    /\ \A w \in Writers : WriterEnded(w) => writelock # w
    /\ (\A w \in Writers : WriterEnded(w)) => lock_acquire(writelock)


(***************************************************************************)
(* Properties of the calls that read the TOC without a lock (specification *)
(* SpecCount)                                                              *)
(***************************************************************************)
\* C39: FileIndex.doc_count_all(), doc_count(), field_length() and
\* is_empty(), which find the latest generation and then open that TOC
\* without taking READLOCK, never fail because a concurrent commit deleted
\* the TOC they found before they opened it.
Claim_C39 ==
    \A r \in Readers :
        readers[r].pc = "idle" /\ readers[r].generation >= 0 =>
            readers[r].err # "IOError"


(***************************************************************************)
(* Progress of commit() and reader() (specification SpecLive)              *)
(***************************************************************************)
\* commit() of writer w has returned and the writer holds no lock
CommitReturned(w) ==
    writers[w].pc = "idle" /\ writelock # w /\ readlock # w

\* reader() of thread r is between its acquire and its release of READLOCK
InReader(r) == readers[r].pc \in {"locked", "toc", "opened"}

=============================================================================
